---- MODULE Spec2Model ----
(***************************************************************************)
(* Join hash index of native-engine/datafusion-ext-plans/src/joins/        *)
(* join_hash_map.rs: MapValue, Table (build, lookup, serialize, load) and  *)
(* JoinHashMap (build from a batch, hash-map batch export and import).     *)
(*                                                                         *)
(* Representation.  TLC integers are 32-bit signed, so a u32 whose two top *)
(* bits matter (a row hash, word 0 of a MapValue) is the record            *)
(* [hi |-> bits 31..30, lo |-> bits 29..0].  Word 1 of a MapValue, row     *)
(* indices and lengths stay below 2^30 and are plain naturals.  Vectors    *)
(* are sequences; the code's 0-based index i is element i + 1.             *)
(***************************************************************************)
EXTENDS Integers, Sequences, FiniteSets, TLC

\* ---------------------------------------------------------------- bounds
MaxRows == 4
\* Slots of a Count column
MaxGroups == 2
\* Length of an IdxSelection::Indices list
MaxIndicesLen == 2
\* partial_update calls on one column
MaxUpdates == 2
\* Native calls made on the UDAF columns of one task
MaxUdafOps == 4

\* Calls made on the IPC writer, reader and sink in one behaviour
MaxIpcOps == 4

\* ------------------------------------------------------ program constants
\* assert!(num_rows < 1073741824)
MaxBuildRows == 1073741824
\* const JOIN_HASH_RANDOM_SEED: u32 = 0x1E39FA04
JOIN_HASH_RANDOM_SEED == 507116036

None == <<>>
Some(x) == <<x>>

U32(hi, lo) == [hi |-> hi, lo |-> lo]

\* ------------------------------------------------------------- MapValue
\* struct MapValue([u32; 2]): word 0 is a u32 record, word 1 a natural
MapValue(w0, w1) == [w0 |-> w0, w1 |-> w1]

EMPTY == MapValue(U32(0, 0), 0)

mask_hash(h) == U32(0, h.lo)

\* 0b10 << 30 | mask_hash(hash): the masked hash has bits 31..30 clear, so
\* the OR sets them to the tag
new_single(h, idx) == MapValue(U32(2, mask_hash(h).lo), idx)

new_range(h, start) == MapValue(U32(3, mask_hash(h).lo), start)

is_empty(mv) == mv.w0 = U32(0, 0)

is_single(mv) == mv.w0.hi = 2

is_range(mv) == mv.w0.hi = 3

hash(mv) == mask_hash(mv.w0)

get_single(mv) == mv.w1

\* &mapped_indices[start..end] with len = mapped_indices[start - 1]
get_range(mv, table) ==
    LET start == mv.w1
        len == table.mapped_indices[(start - 1) + 1]
        end == start + len
    IN SubSeq(table.mapped_indices, start + 1, end)

\* ------------------------------------------------- record batch and keys
\* An Arrow array cell: validity bit and value (0 under a null)
Cell(v) == [valid |-> TRUE, v |-> v]

NullCell == [valid |-> FALSE, v |-> 0]

Field(name, data_type, nullable) ==
    [name |-> name, data_type |-> data_type, nullable |-> nullable]

\* RecordBatch: schema, one array per field, row count
RecordBatch(schema, columns, num_rows) ==
    [schema |-> schema, columns |-> columns, num_rows |-> num_rows]

\* RecordBatch::new_empty(schema): a zero-length array for every field
new_empty(schema) ==
    RecordBatch(schema, [c \in 1..Len(schema) |-> <<>>], 0)

HasNull(col) == \E i \in 1..Len(col) : ~col[i].valid

\* The build rows: both data columns are Int32 and both
\* are join keys; a row is <<a, b>>.  Three keys, and one row kind per key
\* column that is null there.
RowKinds ==
    {<<Cell(a), Cell(1)>> : a \in 1..3}
        \cup {<<NullCell, Cell(1)>>, <<Cell(1), NullCell>>}

RECURSIVE SeqsUpTo(_, _)
SeqsUpTo(S, n) ==
    IF n = 0 THEN {<<>>}
    ELSE LET shorter == SeqsUpTo(S, n - 1)
         IN shorter \cup {Append(q, x) : q \in {r \in shorter : Len(r) = n - 1}, x \in S}

\* The batch holding the given rows; a field is declared nullable iff its
\* array holds a null, so every input batch is a valid RecordBatch
BatchOfRows(rows) ==
    LET colA == [i \in 1..Len(rows) |-> rows[i][1]]
        colB == [i \in 1..Len(rows) |-> rows[i][2]]
    IN RecordBatch(<<Field("a", "Int32", HasNull(colA)),
                     Field("b", "Int32", HasNull(colB))>>,
                   <<colA, colB>>, Len(rows))

Batches == {BatchOfRows(rows) : rows \in SeqsUpTo(RowKinds, MaxRows)}

\* Batches of 2^30 rows or more: only the row count is modelled, the arrays
\* are not enumerated (the build reads nothing else before it stops)
OversizedBatches ==
    {RecordBatch(<<Field("a", "Int32", FALSE), Field("b", "Int32", FALSE)>>,
                 <<<<>>, <<>>>>, n) : n \in {MaxBuildRows, MaxBuildRows + 1}}

\* Key expressions are column references: evaluate(batch) is that column
KeyExprChoices == {<<1, 2>>}

evaluate(expr, batch) == batch.columns[expr]

evaluate_keys(key_exprs, batch) ==
    [k \in 1..Len(key_exprs) |-> evaluate(key_exprs[k], batch)]

\* ------------------------------------------------------------ row hashes
\* Stand-in for gxhash32(value, seed): the first key column picks the hash,
\* a further key column rotates the two top bits.  The masked hashes 4, 39
\* and 0 are chosen to collide: 4 and 39 share the last bucket mod 5 and
\* bucket 4 mod 7.
gxhash32(v, h) ==
    IF h = U32(0, JOIN_HASH_RANDOM_SEED)
    THEN CASE v = 1 -> U32(0, 4)
           [] v = 2 -> U32(0, 39)
           [] OTHER -> U32(2, 0)
    ELSE U32((h.hi + 1) % 4, h.lo)

\* create_hashes: every row starts at the seed; each key column that is
\* valid at the row folds its value into the row's hash
RECURSIVE create_hashes_row(_, _, _, _)
create_hashes_row(key_columns, row, c, h) ==
    IF c > Len(key_columns) THEN h
    ELSE create_hashes_row(key_columns, row, c + 1,
            IF key_columns[c][row + 1].valid
            THEN gxhash32(key_columns[c][row + 1].v, h) ELSE h)

join_create_hashes(num_rows, key_columns) ==
    [i \in 1..num_rows |->
        create_hashes_row(key_columns, i - 1, 1, U32(0, JOIN_HASH_RANDOM_SEED))]

\* Mutation of key_is_valid: one non-null key column is enough
key_is_valid_any(key_columns, row_idx) ==
    \E c \in 1..Len(key_columns) : key_columns[c][row_idx + 1].valid

\* ----------------------------------------- Table::create_from_key_columns
key_is_valid(key_columns, row_idx) ==
    \A c \in 1..Len(key_columns) : key_columns[c][row_idx + 1].valid

\* .enumerate().filter(key_is_valid).map((idx, hash)): the valid rows as a
\* set of (idx, masked hash) pairs (row indices are distinct)
valid_pairs(num_rows, key_columns) ==
    LET hashes == join_create_hashes(num_rows, key_columns)
    IN {[idx |-> i, hash |-> mask_hash(hashes[i + 1])] :
            i \in {r \in 0..(num_rows - 1) : key_is_valid(key_columns, r)}}

RECURSIVE Perms(_)
Perms(S) ==
    IF S = {} THEN {<<>>}
    ELSE UNION {{<<x>> \o p : p \in Perms(S \ {x})} : x \in S}

\* radix_sorted_unstable_by_key(hash): ascending by masked hash; the order
\* of pairs with equal hashes is not promised, so every order is possible
RECURSIVE radix_sorted_unstable_by_key(_)
radix_sorted_unstable_by_key(pairs) ==
    IF pairs = {} THEN {<<>>}
    ELSE LET m == CHOOSE p \in pairs : \A q \in pairs : p.hash.lo <= q.hash.lo
             G == {p \in pairs : p.hash = m.hash}
         IN {g \o rest : g \in Perms(G),
                         rest \in radix_sorted_unstable_by_key(pairs \ G)}

\* Length of the leading chunk of chunk_by(hash)
RECURSIVE chunk_len(_, _)
chunk_len(sorted, n) ==
    IF n < Len(sorted) /\ sorted[n + 1].hash = sorted[1].hash
    THEN chunk_len(sorted, n + 1) ELSE n

\* Mutation of collect_map_items: a run of one row keeps its two slots of
\* mapped_indices
RECURSIVE collect_map_items_unpopped(_, _, _)
collect_map_items_unpopped(sorted, mapped_indices, map_items) ==
    IF sorted = <<>>
    THEN [mapped_indices |-> mapped_indices, map_items |-> map_items]
    ELSE LET h == sorted[1].hash
             n == chunk_len(sorted, 1)
             rest == SubSeq(sorted, n + 1, Len(sorted))
             pos == Len(mapped_indices)
             extended == (mapped_indices \o <<0>>)
                            \o [i \in 1..n |-> sorted[i].idx]
             start == pos + 1
             len == Len(extended) - start
             with_len == [extended EXCEPT ![pos + 1] = len]
         IN IF len = 1
            THEN collect_map_items_unpopped(rest, with_len,
                    Append(map_items, new_single(h, with_len[Len(with_len)])))
            ELSE collect_map_items_unpopped(rest, with_len,
                    Append(map_items, new_range(h, start)))

\* "collect map items": one pass of the loop body per chunk
RECURSIVE collect_map_items(_, _, _)
collect_map_items(sorted, mapped_indices, map_items) ==
    IF sorted = <<>>
    THEN [mapped_indices |-> mapped_indices, map_items |-> map_items]
    ELSE LET h == sorted[1].hash
             n == chunk_len(sorted, 1)
             rest == SubSeq(sorted, n + 1, Len(sorted))
             pos == Len(mapped_indices)
             extended == (mapped_indices \o <<0>>)
                            \o [i \in 1..n |-> sorted[i].idx]
             start == pos + 1
             len == Len(extended) - start
             with_len == [extended EXCEPT ![pos + 1] = len]
         IN IF len = 1
            THEN \* two pops: the single index, then the length slot
                 collect_map_items(rest,
                    SubSeq(with_len, 1, Len(with_len) - 2),
                    Append(map_items, new_single(h, with_len[Len(with_len)])))
            ELSE collect_map_items(rest, with_len,
                    Append(map_items, new_range(h, start)))

\* while i < map.len() && !map[i].is_empty() { i += 1 }
RECURSIVE first_free(_, _)
first_free(map, i) ==
    IF i < Len(map) /\ ~is_empty(map[i + 1]) THEN first_free(map, i + 1) ELSE i

\* Mutation of insert_item: probing starts one bucket too far
insert_item_next_bucket(map, item, map_mod) ==
    LET i == first_free(map, (hash(item).lo + 1) % map_mod)
    IN IF i < Len(map) THEN [map EXCEPT ![i + 1] = item] ELSE Append(map, item)

insert_item(map, item, map_mod) ==
    LET i == first_free(map, hash(item).lo % map_mod)
    IN IF i < Len(map) THEN [map EXCEPT ![i + 1] = item] ELSE Append(map, item)

RECURSIVE insert_items(_, _, _)
insert_items(map, map_items, map_mod) ==
    IF map_items = <<>> THEN map
    ELSE insert_items(insert_item(map, map_items[1], map_mod),
                      Tail(map_items), map_mod)

\* Mutation of build_map: no sentinel is pushed
build_map_no_sentinel(map_items, map_mod) ==
    insert_items([i \in 1..map_mod |-> EMPTY], map_items, map_mod)

\* "build map": resize to map_mod EMPTY slots, insert, push the sentinel
build_map(map_items, map_mod) ==
    Append(insert_items([i \in 1..map_mod |-> EMPTY], map_items, map_mod), EMPTY)

Table(num_valid_items, map_mod, map, mapped_indices) ==
    [num_valid_items |-> num_valid_items, map_mod |-> map_mod,
     map |-> map, mapped_indices |-> mapped_indices]

\* The table built from one outcome `sorted` of the unstable sort
table_from_sorted(sorted) ==
    LET collected == collect_map_items(sorted, <<>>, <<>>)
        map_mod == Len(collected.map_items) * 2 + 1
    IN Table(Len(sorted), map_mod,
             build_map(collected.map_items, map_mod),
             collected.mapped_indices)

\* Every table create_from_key_columns can return for num_rows < 2^30
create_from_key_columns(num_rows, key_columns) ==
    {table_from_sorted(sorted) :
        sorted \in radix_sorted_unstable_by_key(valid_pairs(num_rows, key_columns))}

\* Mutation of probe: the first occupied slot is returned, its hash unread
probe_any_occupied(table, h, i, reads) ==
    IF i >= Len(table.map)
    THEN [value |-> EMPTY, reads |-> reads + 1, oob |-> TRUE]
    ELSE [value |-> table.map[i + 1], reads |-> reads + 1, oob |-> FALSE]

\* ---------------------------------------------------------- Table::lookup
\* The probe loop from slot i: the value returned, the number of slots
\* read, and whether a slot at or past map.len() was read (the vector is
\* indexed unchecked)
RECURSIVE probe(_, _, _, _)
probe(table, h, i, reads) ==
    IF i >= Len(table.map)
    THEN [value |-> EMPTY, reads |-> reads + 1, oob |-> TRUE]
    ELSE IF is_empty(table.map[i + 1])
    THEN [value |-> EMPTY, reads |-> reads + 1, oob |-> FALSE]
    ELSE IF hash(table.map[i + 1]) = h
    THEN [value |-> table.map[i + 1], reads |-> reads + 1, oob |-> FALSE]
    ELSE probe(table, h, i + 1, reads + 1)

\* Mutation of lookup: the hash is not masked before it is compared
lookup_unmasked(table, h) ==
    probe(table, h, mask_hash(h).lo % table.map_mod, 0)

lookup(table, h) ==
    LET masked == mask_hash(h)
    IN probe(table, masked, masked.lo % table.map_mod, 0)

\* --------------------------------------------------- byte-level encoding
\* write_len: base-128 varint, low group first, bit 7 set on all but the
\* last byte
RECURSIVE write_len(_)
write_len(n) ==
    IF n >= 128 THEN <<128 + (n % 128)>> \o write_len(n \div 128) ELSE <<n>>

\* Result of a read at a cursor: ok, the value, the cursor after it
ReadResult(ok, value, pos) == [ok |-> ok, value |-> value, pos |-> pos]

\* read_len at byte offset pos (0-based); unexpected EOF is an error
RECURSIVE read_len_from(_, _, _, _)
read_len_from(bytes, pos, shift, acc) ==
    IF pos >= Len(bytes) THEN ReadResult(FALSE, 0, pos)
    ELSE LET b == bytes[pos + 1]
         IN IF b >= 128
            THEN read_len_from(bytes, pos + 1, shift * 128, acc + (b - 128) * shift)
            ELSE ReadResult(TRUE, acc + b * shift, pos + 1)

read_len(bytes, pos) == read_len_from(bytes, pos, 1, 0)

\* The 4 little-endian bytes of a natural below 2^31
le_bytes(n) ==
    <<n % 256, (n \div 256) % 256, (n \div 65536) % 256, n \div 16777216>>

\* The 4 little-endian bytes of a u32 record: bits 31..30 are the top two
\* bits of the last byte
le_bytes_u32(u) ==
    <<u.lo % 256, (u.lo \div 256) % 256, (u.lo \div 65536) % 256,
      (u.lo \div 16777216) + 64 * u.hi>>

\* write_raw_slice(&map): 8 bytes per MapValue, word 0 then word 1
RECURSIVE write_raw_slice(_)
write_raw_slice(map) ==
    IF map = <<>> THEN <<>>
    ELSE (le_bytes_u32(map[1].w0) \o le_bytes(map[1].w1))
            \o write_raw_slice(Tail(map))

\* The MapValue held by the 8 bytes at offset pos
map_value_at(bytes, pos) ==
    LET b(k) == bytes[pos + k]
    IN MapValue(U32(b(4) \div 64,
                    b(1) + 256 * b(2) + 65536 * b(3) + 16777216 * (b(4) % 64)),
                b(5) + 256 * b(6) + 65536 * b(7) + 16777216 * b(8))

\* read_raw_slice(&mut map): overwrites every element of the buffer, or
\* fails (the buffer's prior content then no longer matters: the call
\* returns the error)
read_raw_slice(buffer, bytes, pos) ==
    IF pos + 8 * Len(buffer) > Len(bytes) THEN ReadResult(FALSE, buffer, pos)
    ELSE ReadResult(TRUE,
            [i \in 1..Len(buffer) |-> map_value_at(bytes, pos + 8 * (i - 1))],
            pos + 8 * Len(buffer))

RECURSIVE write_lens(_)
write_lens(values) ==
    IF values = <<>> THEN <<>>
    ELSE write_len(values[1]) \o write_lens(Tail(values))

\* for _ in 0..mapped_indices_len { mapped_indices.push(read_len()? as u32) }
RECURSIVE read_lens(_, _, _, _)
read_lens(bytes, pos, n, acc) ==
    IF n = 0 THEN ReadResult(TRUE, acc, pos)
    ELSE LET r == read_len(bytes, pos)
         IN IF ~r.ok THEN ReadResult(FALSE, acc, r.pos)
            ELSE read_lens(bytes, r.pos, n - 1, Append(acc, r.value))

\* ------------------------------------------- Table::try_into_raw_bytes
\* Mutation of try_into_raw_bytes: map_mod is written before num_valid_items
try_into_raw_bytes_swapped(table) ==
    write_len(table.map_mod)
        \o write_len(table.num_valid_items)
        \o write_len(Len(table.map))
        \o write_raw_slice(table.map)
        \o write_len(Len(table.mapped_indices))
        \o write_lens(table.mapped_indices)

try_into_raw_bytes(table) ==
    write_len(table.num_valid_items)
        \o write_len(table.map_mod)
        \o write_len(Len(table.map))
        \o write_raw_slice(table.map)
        \o write_len(Len(table.mapped_indices))
        \o write_lens(table.mapped_indices)

\* ------------------------------------------- Table::load_from_raw_bytes
\* `uninit` is what the uninitialized buffer happens to hold before
\* read_raw_slice fills it.  ReadResult: ok, the table, the cursor.
load_from_raw_bytes(raw_bytes, uninit) ==
    LET r1 == read_len(raw_bytes, 0)
        r2 == read_len(raw_bytes, r1.pos)
        r3 == read_len(raw_bytes, r2.pos)
        r4 == read_raw_slice([i \in 1..r3.value |-> uninit], raw_bytes, r3.pos)
        r5 == read_len(raw_bytes, r4.pos)
        r6 == read_lens(raw_bytes, r5.pos, r5.value, <<>>)
    IN IF ~r1.ok THEN ReadResult(FALSE, None, r1.pos)
       ELSE IF ~r2.ok THEN ReadResult(FALSE, None, r2.pos)
       ELSE IF ~r3.ok THEN ReadResult(FALSE, None, r3.pos)
       ELSE IF ~r4.ok THEN ReadResult(FALSE, None, r4.pos)
       ELSE IF ~r5.ok THEN ReadResult(FALSE, None, r5.pos)
       ELSE IF ~r6.ok THEN ReadResult(FALSE, None, r6.pos)
       ELSE ReadResult(TRUE, Table(r1.value, r2.value, r4.value, r6.value), r6.pos)

\* What an uninitialized MapValue may hold
UninitValues == {EMPTY, MapValue(U32(3, 4), 1)}

\* ---------------------------------------------------------- JoinHashMap
JoinHashMap(data_batch, key_columns, table) ==
    [data_batch |-> data_batch, key_columns |-> key_columns, table |-> table]

\* Every JoinHashMap create_from_data_batch can return for a batch below
\* 2^30 rows
create_from_data_batch(data_batch, key_exprs) ==
    LET key_columns == evaluate_keys(key_exprs, data_batch)
    IN {JoinHashMap(data_batch, key_columns, table) :
            table \in create_from_key_columns(data_batch.num_rows, key_columns)}

create_empty(hash_map_schema, key_exprs) ==
    create_from_data_batch(new_empty(hash_map_schema), key_exprs)

join_table_field == Field("~TABLE", "Binary", TRUE)

join_hash_map_schema(data_schema) ==
    [i \in 1..Len(data_schema) |->
        Field(data_schema[i].name, data_schema[i].data_type, TRUE)]
        \o <<join_table_field>>

\* RecordBatch::try_new: one array per field, equal lengths, no null in a
\* non-nullable field
try_new_ok(schema, columns) ==
    /\ Len(schema) = Len(columns)
    /\ \A c \in 1..Len(columns) : Len(columns[c]) = Len(columns[1])
    /\ \A c \in 1..Len(columns) : HasNull(columns[c]) => schema[c].nullable

\* Mutation of table_col: the bytes are appended at every row
table_col_all_rows(raw_bytes, num_rows) ==
    [i \in 1..num_rows |-> Cell(raw_bytes)]

\* BinaryBuilder: append_value(bytes), then append_null() num_rows - 1 times
table_col(raw_bytes, num_rows) ==
    <<Cell(raw_bytes)>> \o [i \in 1..(num_rows - 1) |-> [valid |-> FALSE, v |-> <<>>]]

\* into_hash_map_batch: ok and the batch
into_hash_map_batch(m) ==
    LET schema == join_hash_map_schema(m.data_batch.schema)
        columns == m.data_batch.columns
                    \o <<table_col(try_into_raw_bytes(m.table), m.data_batch.num_rows)>>
    IN IF m.data_batch.num_rows = 0
       THEN [ok |-> TRUE, batch |-> new_empty(schema)]
       ELSE IF try_new_ok(schema, columns)
       THEN [ok |-> TRUE, batch |-> RecordBatch(schema, columns, m.data_batch.num_rows)]
       ELSE [ok |-> FALSE, batch |-> new_empty(schema)]

\* data_batch.remove_column(num_columns - 1): the batch left and the column
remove_last_column(batch) ==
    [batch |-> RecordBatch(SubSeq(batch.schema, 1, Len(batch.schema) - 1),
                           SubSeq(batch.columns, 1, Len(batch.columns) - 1),
                           batch.num_rows),
     column |-> batch.columns[Len(batch.columns)]]

\* Mutation of load_from_hash_map_batch: the table is decoded from the last
\* column but the column stays in the data batch
load_from_hash_map_batch_keep_column(hash_map_batch, key_exprs, uninit) ==
    LET removed == remove_last_column(hash_map_batch)
        loaded == load_from_raw_bytes(removed.column[1].v, uninit)
    IN IF Len(removed.column) = 0
       THEN [outcome |-> "panic", map |-> None]
       ELSE IF ~loaded.ok
       THEN [outcome |-> "err", map |-> None]
       ELSE [outcome |-> "ok",
             map |-> Some(JoinHashMap(hash_map_batch,
                                      evaluate_keys(key_exprs, hash_map_batch),
                                      loaded.value))]

\* load_from_hash_map_batch: "panic" when value(0) is asked of a zero-length
\* binary array, "err" when the bytes do not decode, else "ok" and the map
load_from_hash_map_batch(hash_map_batch, key_exprs, uninit) ==
    LET removed == remove_last_column(hash_map_batch)
        data_batch == removed.batch
        loaded == load_from_raw_bytes(removed.column[1].v, uninit)
    IN IF Len(removed.column) = 0
       THEN [outcome |-> "panic", map |-> None]
       ELSE IF ~loaded.ok
       THEN [outcome |-> "err", map |-> None]
       ELSE [outcome |-> "ok",
             map |-> Some(JoinHashMap(data_batch,
                                      evaluate_keys(key_exprs, data_batch),
                                      loaded.value))]

is_all_nulls(m) == m.table.num_valid_items = 0

map_is_empty(m) == m.data_batch.num_rows = 0

\* ----------------------------------------------------------------- state
VARIABLES
    phase,           \* "start", "built", "raw", "rawloaded", "hmb", "loaded", "panicked"
    key_exprs,       \* the key expressions of the build
    build_num_rows,  \* num_rows of the batch handed to the build
    hash_map,        \* the JoinHashMap built (kept for reference once consumed)
    raw_bytes,       \* result of Table::try_into_raw_bytes
    raw_table,       \* ReadResult of Table::load_from_raw_bytes
    hash_map_batch,  \* result of into_hash_map_batch
    loaded_map,      \* result of load_from_hash_map_batch
    last_lookup,     \* the last lookup: target, hash, value, reads, oob
    outcome,         \* how the last operation ended: "ok", "err", "panic"
    \* -- Count accumulator (agg/count.rs)
    accs,            \* AccCountColumn.values of the column under update
    merging_accs,    \* values of a second Count column (merge source, load target)
    third_accs,      \* values of a third Count column (merge source)
    rows,            \* the byte buffers handed to freeze_to_rows / unfreeze_from_rows
    offsets,         \* the read offsets handed to unfreeze_from_rows
    spill_stream,    \* the spill writer / reader: bytes written and read position
    count_log,       \* what has been applied so far (history)
    count_out,       \* result of the last Count operation
    \* -- external UDAF accumulator (agg/spark_udaf_wrapper.rs)
    jcontext,        \* SparkUDAFWrapper.jcontext: the host context once created
    jheap,           \* host row arrays; a GlobalRef is an index into it
    udaf_cols,       \* the AccUnsafeRowsColumn values created: obj and num_rows
    udaf_log,        \* what has been applied so far (history)
    udaf_out,        \* result of the last UDAF operation
    \* -- headless Arrow IPC (util/ipc.rs)
    sink,            \* the Write + Seek output: bytes and position
    ipc_writer,      \* the HeadlessStreamWriter, once created over the sink
    ipc_input,       \* the Read input of the reader: bytes and position
    ipc_reader,      \* the HeadlessStreamReader, once created over the input
    ipc_out          \* result of the last IPC operation

joinVars == <<phase, key_exprs, build_num_rows, hash_map, raw_bytes, raw_table,
              hash_map_batch, loaded_map, last_lookup, outcome>>

countVars == <<accs, merging_accs, third_accs, rows, offsets, spill_stream,
               count_log, count_out>>

\* The Count columns without the buffers shared with other accumulators
countColumnVars == <<accs, merging_accs, third_accs, count_log, count_out>>

udafVars == <<jcontext, jheap, udaf_cols, udaf_log, udaf_out>>

ipcVars == <<sink, ipc_writer, ipc_input, ipc_reader, ipc_out>>

nonJoinVars == <<countVars, udafVars, ipcVars>>

vars == <<joinVars, countVars, udafVars, ipcVars>>

\* No Count column exists.
CountIdle ==
    /\ accs = <<>>
    /\ merging_accs = <<>>
    /\ third_accs = <<>>
    /\ rows = <<>>
    /\ offsets = <<>>
    /\ spill_stream = [bytes |-> <<>>, pos |-> 0]
    /\ count_log = None
    /\ count_out = None

\* Hashes probed: the hash of every build key, one that differs from a
\* key's hash in the two top bits only, and two that no build key has
\* (74 shares the buckets of 4 and 39, mod 5 and mod 7)
LookupHashes ==
    {U32(1, 4), U32(1, 39), U32(3, 0), U32(0, 4), U32(2, 74), U32(0, 18)}

\* No join hash map has been built.
JoinIdle ==
    /\ phase = "start"
    /\ key_exprs = <<>>
    /\ build_num_rows = 0
    /\ hash_map = None
    /\ raw_bytes = None
    /\ raw_table = None
    /\ hash_map_batch = None
    /\ loaded_map = None
    /\ last_lookup = None
    /\ outcome = "ok"

\* No host context and no UDAF column exists.
UdafIdle ==
    /\ jcontext = None
    /\ jheap = <<>>
    /\ udaf_cols = <<>>
    /\ udaf_log = None
    /\ udaf_out = None

\* No IPC writer or reader exists; the sink and the input are empty.
IpcIdle ==
    /\ sink = [bytes |-> <<>>, pos |-> 0]
    /\ ipc_writer = None
    /\ ipc_input = [bytes |-> <<>>, pos |-> 0]
    /\ ipc_reader = None
    /\ ipc_out = None

Init ==
    /\ JoinIdle
    /\ CountIdle
    /\ UdafIdle
    /\ IpcIdle

\* JoinHashMap::create_from_data_batch -> Table::create_from_key_columns.
\* The assert on num_rows panics; otherwise one of the possible tables.
CreateFromDataBatch ==
    /\ phase = "start"
    /\ \E data_batch \in Batches \cup OversizedBatches, exprs \in KeyExprChoices :
        /\ key_exprs' = exprs
        /\ build_num_rows' = data_batch.num_rows
        /\ IF ~(data_batch.num_rows < MaxBuildRows)
           THEN /\ phase' = "panicked"
                /\ outcome' = "panic"
                /\ hash_map' = None
           ELSE /\ phase' = "built"
                /\ outcome' = "ok"
                /\ \E m \in create_from_data_batch(data_batch, exprs) :
                        hash_map' = Some(m)
    /\ UNCHANGED <<raw_bytes, raw_table, hash_map_batch, loaded_map, last_lookup>>
    /\ UNCHANGED nonJoinVars

\* JoinHashMap::create_empty over the hash-map schema of the data fields
CreateEmpty ==
    /\ phase = "start"
    /\ \E exprs \in KeyExprChoices, nullable \in BOOLEAN :
        /\ key_exprs' = exprs
        /\ \E m \in create_empty(
                    join_hash_map_schema(<<Field("a", "Int32", nullable),
                                           Field("b", "Int32", nullable)>>),
                    exprs) :
                hash_map' = Some(m)
    /\ build_num_rows' = 0
    /\ phase' = "built"
    /\ outcome' = "ok"
    /\ UNCHANGED <<raw_bytes, raw_table, hash_map_batch, loaded_map, last_lookup>>
    /\ UNCHANGED nonJoinVars

\* JoinHashMap::lookup on the built map or on the loaded one.  A read past
\* the end of the unchecked vector yields whatever lies there.
Lookup ==
    /\ phase \in {"built", "loaded"}
    /\ \E h \in LookupHashes :
        LET on == IF phase = "built" THEN hash_map[1] ELSE loaded_map[1]
            r == lookup(on.table, h)
        IN \E v \in (IF r.oob THEN UninitValues ELSE {r.value}) :
            last_lookup' = Some([on |-> phase, hash |-> h, value |-> v,
                                 reads |-> r.reads, oob |-> r.oob])
    /\ outcome' = "ok"
    /\ UNCHANGED <<phase, key_exprs, build_num_rows, hash_map, raw_bytes,
                   raw_table, hash_map_batch, loaded_map>>
    /\ UNCHANGED nonJoinVars

\* Table::try_into_raw_bytes(self)
TryIntoRawBytes ==
    /\ phase = "built"
    /\ raw_bytes' = Some(try_into_raw_bytes(hash_map[1].table))
    /\ phase' = "raw"
    /\ outcome' = "ok"
    /\ last_lookup' = None
    /\ UNCHANGED <<key_exprs, build_num_rows, hash_map, raw_table,
                   hash_map_batch, loaded_map>>
    /\ UNCHANGED nonJoinVars

\* Table::load_from_raw_bytes
LoadFromRawBytes ==
    /\ phase = "raw"
    /\ \E uninit \in UninitValues :
        LET r == load_from_raw_bytes(raw_bytes[1], uninit)
        IN /\ raw_table' = Some(r)
           /\ outcome' = IF r.ok THEN "ok" ELSE "err"
    /\ phase' = "rawloaded"
    /\ UNCHANGED <<key_exprs, build_num_rows, hash_map, raw_bytes,
                   hash_map_batch, loaded_map, last_lookup>>
    /\ UNCHANGED nonJoinVars

\* JoinHashMap::into_hash_map_batch(self)
IntoHashMapBatch ==
    /\ phase = "built"
    /\ LET r == into_hash_map_batch(hash_map[1])
       IN /\ hash_map_batch' = Some(r.batch)
          /\ outcome' = IF r.ok THEN "ok" ELSE "err"
    /\ phase' = "hmb"
    /\ last_lookup' = None
    /\ UNCHANGED <<key_exprs, build_num_rows, hash_map, raw_bytes, raw_table,
                   loaded_map>>
    /\ UNCHANGED nonJoinVars

\* JoinHashMap::load_from_hash_map_batch with the same key expressions
LoadFromHashMapBatch ==
    /\ phase = "hmb"
    /\ outcome = "ok"
    /\ \E uninit \in UninitValues :
        LET r == load_from_hash_map_batch(hash_map_batch[1], key_exprs, uninit)
        IN /\ loaded_map' = r.map
           /\ outcome' = r.outcome
           /\ phase' = IF r.outcome = "panic" THEN "panicked" ELSE "loaded"
    /\ UNCHANGED <<key_exprs, build_num_rows, hash_map, raw_bytes, raw_table,
                   hash_map_batch, last_lookup>>
    /\ UNCHANGED nonJoinVars

Next ==
    \/ CreateFromDataBatch
    \/ CreateEmpty
    \/ Lookup
    \/ TryIntoRawBytes
    \/ LoadFromRawBytes
    \/ IntoHashMapBatch
    \/ LoadFromHashMapBatch

Spec == Init /\ [][Next]_vars

\* ------------------------------------------------ vocabulary of the claims
Built == hash_map[1]

Range(q) == {q[i] : i \in 1..Len(q)}

\* The build rows whose key columns are all non-null
ValidRows(m) ==
    {r \in 0..(m.data_batch.num_rows - 1) :
        \A c \in 1..Len(m.key_columns) : m.key_columns[c][r + 1].valid}

\* The 32-bit join hash of build row r
RowHash(m, r) == join_create_hashes(m.data_batch.num_rows, m.key_columns)[r + 1]

MaskedHashes(m) == {mask_hash(RowHash(m, r)) : r \in ValidRows(m)}

\* Indices (0-based) of the non-empty slots of a map
Occupied(map) == {j \in 0..(Len(map) - 1) : ~is_empty(map[j + 1])}

\* Singles plus run lengths over the slots S of a table's map
RECURSIVE ItemsIn(_, _)
ItemsIn(t, S) ==
    IF S = {} THEN 0
    ELSE LET j == CHOOSE y \in S : TRUE
         IN (IF is_single(t.map[j + 1]) THEN 1 ELSE Len(get_range(t.map[j + 1], t)))
                + ItemsIn(t, S \ {j})

\* The build rows an entry stands for
RowsOf(mv, table) ==
    IF is_single(mv) THEN {get_single(mv)} ELSE Range(get_range(mv, table))

LookedUpOn(target) == last_lookup # None /\ last_lookup[1].on = target

\* C1: lookup soundness.  After a lookup on a built table, every build row
\* with all keys non-null whose masked hash is the masked hash looked up is
\* found: the value returned is non-empty, stores that masked hash, and is
\* either single-tagged with that row as its index or range-tagged with the
\* row inside its run.
C1_LookupSound ==
    LookedUpOn("built") =>
        \A r \in ValidRows(Built) :
            mask_hash(RowHash(Built, r)) = mask_hash(last_lookup[1].hash) =>
                LET v == last_lookup[1].value
                IN /\ ~is_empty(v)
                   /\ hash(v) = mask_hash(RowHash(Built, r))
                   /\ \/ is_single(v) /\ get_single(v) = r
                      \/ is_range(v) /\ r \in Range(get_range(v, Built.table))

\* A lookup that passed a colliding entry and returned a run
C1_Witness ==
    /\ LookedUpOn("built")
    /\ is_range(last_lookup[1].value)
    /\ last_lookup[1].reads >= 2
    /\ last_lookup[1].hash.hi # 0

\* C2: lookup completeness for misses.  After a lookup on a built table of
\* a hash whose masked value is the masked hash of no valid build row, the
\* value returned is EMPTY (so it is for the table of an empty batch and
\* for the table whose rows all have a null key).
C2_LookupMiss ==
    (LookedUpOn("built") /\ mask_hash(last_lookup[1].hash) \notin MaskedHashes(Built))
        => last_lookup[1].value = EMPTY

\* A miss that walked over occupied slots of a table with valid rows
C2_Witness ==
    /\ LookedUpOn("built")
    /\ mask_hash(last_lookup[1].hash) \notin MaskedHashes(Built)
    /\ last_lookup[1].value = EMPTY
    /\ last_lookup[1].reads >= 3

\* C3: sentinel termination.  The last slot of a built map is EMPTY and
\* map.len >= map_mod + 1; a lookup never reads a slot at or past map.len
\* and reads at most map.len - (h % map_mod) + 1 slots.
C3_SentinelTermination ==
    phase \in {"built", "raw", "rawloaded", "hmb", "loaded"} =>
        /\ is_empty(Built.table.map[Len(Built.table.map)])
        /\ Len(Built.table.map) >= Built.table.map_mod + 1
        /\ LookedUpOn("built") =>
            /\ ~last_lookup[1].oob
            /\ last_lookup[1].reads <=
                    Len(Built.table.map)
                        - (mask_hash(last_lookup[1].hash).lo % Built.table.map_mod) + 1

\* A probe that ran over the overflow tail and stopped at the sentinel
C3_Witness ==
    /\ LookedUpOn("built")
    /\ Len(Built.table.map) > Built.table.map_mod + 1
    /\ last_lookup[1].value = EMPTY
    /\ last_lookup[1].reads =
            Len(Built.table.map)
                - (mask_hash(last_lookup[1].hash).lo % Built.table.map_mod)
    /\ last_lookup[1].reads >= 3

\* C4: probe-chain invariant.  map_mod is twice the number of distinct
\* masked hashes of valid rows plus one, and every non-empty entry lies at
\* or after its canonical bucket hash % map_mod with no empty slot between
\* the bucket and the entry.
C4_ProbeChain ==
    phase \in {"built", "raw", "rawloaded", "hmb", "loaded"} =>
        LET t == Built.table
        IN /\ t.map_mod = 2 * Cardinality(MaskedHashes(Built)) + 1
           /\ t.map_mod >= 1
           /\ \A j \in Occupied(t.map) :
                LET c == hash(t.map[j + 1]).lo % t.map_mod
                IN /\ c <= j
                   /\ \A k \in c..j : ~is_empty(t.map[k + 1])

\* A map with an entry pushed past its canonical bucket into the tail
C4_Witness ==
    /\ phase = "built"
    /\ \E j \in Occupied(Built.table.map) :
        /\ j >= Built.table.map_mod
        /\ hash(Built.table.map[j + 1]).lo % Built.table.map_mod < j

\* C5: item accounting.  num_valid_items is the number of build rows with
\* all keys non-null, and is the number of single entries plus the summed
\* run lengths of the range entries; no row with a null key is a single
\* index or a member of a run.
C5_ItemAccounting ==
    phase \in {"built", "raw", "rawloaded", "hmb", "loaded"} =>
        LET t == Built.table
        IN /\ t.num_valid_items = Cardinality(ValidRows(Built))
           /\ t.num_valid_items = ItemsIn(t, Occupied(t.map))
           /\ \A j \in Occupied(t.map) :
                /\ is_single(t.map[j + 1]) \/ is_range(t.map[j + 1])
                /\ RowsOf(t.map[j + 1], t) \subseteq ValidRows(Built)

\* A table with a single, a run and a row left out for a null key
C5_Witness ==
    /\ phase = "built"
    /\ \E j \in Occupied(Built.table.map) : is_single(Built.table.map[j + 1])
    /\ \E j \in Occupied(Built.table.map) : is_range(Built.table.map[j + 1])
    /\ Cardinality(ValidRows(Built)) < Built.data_batch.num_rows

\* C6: JoinTable serialization round trip.  Loading the bytes written by
\* try_into_raw_bytes succeeds, returns the same num_valid_items, map_mod,
\* map (sentinel included) and mapped_indices, and leaves the cursor at the
\* end of the bytes; the bytes start with the varints of num_valid_items,
\* map_mod and map.len, then hold 8 raw bytes per slot, then the varint of
\* mapped_indices.len.
C6_TableRoundTrip ==
    phase = "rawloaded" =>
        LET t == Built.table
            bytes == raw_bytes[1]
            r1 == read_len(bytes, 0)
            r2 == read_len(bytes, r1.pos)
            r3 == read_len(bytes, r2.pos)
            r5 == read_len(bytes, r3.pos + 8 * Len(t.map))
        IN /\ raw_table[1].ok
           /\ raw_table[1].value = t
           /\ raw_table[1].pos = Len(bytes)
           /\ r1.ok /\ r1.value = t.num_valid_items
           /\ r2.ok /\ r2.value = t.map_mod
           /\ r3.ok /\ r3.value = Len(t.map)
           /\ r5.ok /\ r5.value = Len(t.mapped_indices)

\* A round trip of a table with a run, a single and an overflow entry
C6_Witness ==
    /\ phase = "rawloaded"
    /\ raw_table[1].ok
    /\ Len(raw_table[1].value.mapped_indices) >= 3
    /\ Len(raw_table[1].value.map) > raw_table[1].value.map_mod + 1
    /\ \E j \in Occupied(raw_table[1].value.map) :
            is_single(raw_table[1].value.map[j + 1])

\* C7: hash-map batch round trip.  The index loaded from the batch that
\* into_hash_map_batch made of a non-empty build answers lookup and
\* get_range, for the hash of every valid build row, as the built index
\* does, and its data batch holds the build's columns without ~TABLE.
C7_HashMapBatchRoundTrip ==
    (phase = "loaded" /\ build_num_rows >= 1) =>
        LET m == loaded_map[1]
        IN /\ outcome = "ok"
           /\ m.data_batch.columns = Built.data_batch.columns
           /\ m.data_batch.num_rows = Built.data_batch.num_rows
           /\ [i \in 1..Len(m.data_batch.schema) |-> m.data_batch.schema[i].name]
                = [i \in 1..Len(Built.data_batch.schema) |->
                        Built.data_batch.schema[i].name]
           /\ m.key_columns = Built.key_columns
           /\ \A r \in ValidRows(Built) :
                LET a == lookup(m.table, RowHash(Built, r)).value
                    b == lookup(Built.table, RowHash(Built, r)).value
                IN /\ a = b
                   /\ is_range(b) => get_range(a, m.table) = get_range(b, Built.table)
           /\ LookedUpOn("loaded") =>
                last_lookup[1].value = lookup(Built.table, last_lookup[1].hash).value

\* A lookup on the loaded index that returned a run of build rows
C7_Witness ==
    /\ phase = "loaded"
    /\ build_num_rows >= 1
    /\ LookedUpOn("loaded")
    /\ is_range(last_lookup[1].value)
    /\ Len(get_range(last_lookup[1].value, loaded_map[1].table)) >= 2

\* C8: layout of the hash-map batch.  For a build of n >= 1 rows the batch
\* has n rows, the data columns, then one column ~TABLE (binary) whose row 0
\* is non-null and holds the serialized table and whose other rows are
\* null; for a build of 0 rows it has 0 rows.  In both cases the schema is
\* the data fields made nullable followed by ~TABLE.
C8_HashMapBatchLayout ==
    phase = "hmb" =>
        LET b == hash_map_batch[1]
            d == Built.data_batch
            n == d.num_rows
            k == Len(d.columns)
        IN /\ outcome = "ok"
           /\ b.num_rows = n
           /\ Len(b.schema) = k + 1
           /\ Len(b.columns) = k + 1
           /\ \A c \in 1..k :
                /\ b.schema[c] = [d.schema[c] EXCEPT !.nullable = TRUE]
                /\ b.columns[c] = d.columns[c]
           /\ b.schema[k + 1] = Field("~TABLE", "Binary", TRUE)
           /\ Len(b.columns[k + 1]) = n
           /\ n >= 1 =>
                /\ b.columns[k + 1][1].valid
                /\ b.columns[k + 1][1].v = try_into_raw_bytes(Built.table)
                /\ \A i \in 2..n : ~b.columns[k + 1][i].valid

\* The batch of a build of several rows, one of them left out of the index
C8_Witness ==
    /\ phase = "hmb"
    /\ hash_map_batch[1].num_rows >= 3
    /\ Built.table.num_valid_items >= 1
    /\ \E c \in 1..Len(Built.data_batch.schema) : ~Built.data_batch.schema[c].nullable
    /\ ~hash_map_batch[1].columns[Len(hash_map_batch[1].columns)][2].valid

\* C9: loading a zero-row hash-map batch.  The claim: the load succeeds and
\* the index is that of create_empty: is_empty and is_all_nulls hold and
\* every lookup returns EMPTY.  (The code asks value(0) of the zero-length
\* ~TABLE array, which panics.)
C9_LoadEmptyBatchSucceeds ==
    (hash_map_batch # None /\ hash_map_batch[1].num_rows = 0
            /\ phase \in {"loaded", "panicked"}) =>
        /\ outcome = "ok"
        /\ loaded_map # None
        /\ map_is_empty(loaded_map[1])
        /\ is_all_nulls(loaded_map[1])
        /\ \A h \in LookupHashes : lookup(loaded_map[1].table, h).value = EMPTY

\* C10: oversized build.  The claim: a build over num_rows >= 2^30 returns
\* an error result and no table.  (The code asserts num_rows < 2^30, which
\* panics.)
C10_OversizedBuildReturnsError ==
    build_num_rows >= MaxBuildRows =>
        /\ outcome = "err"
        /\ hash_map = None

\* ======================================================= Count accumulator
\* ------------------------------------------------------------ IdxSelection
\* IdxSelection::{Single, Range, Indices}: an ordered list of 0-based indices
Single(i) == [kind |-> "Single", begin |-> i, end |-> i + 1, indices |-> <<>>]

IdxRange(begin, end) ==
    [kind |-> "Range", begin |-> begin, end |-> end, indices |-> <<>>]

Indices(s) == [kind |-> "Indices", begin |-> 0, end |-> 0, indices |-> s]

idx_len(sel) ==
    IF sel.kind = "Indices" THEN Len(sel.indices) ELSE sel.end - sel.begin

\* The k-th index of the selection, k counted from 0
idx_at(sel, k) ==
    IF sel.kind = "Indices" THEN sel.indices[k + 1] ELSE sel.begin + k

\* idx_for!: the indices in selection order
idx_for(sel) == [k \in 1..idx_len(sel) |-> idx_at(sel, k - 1)]

\* Two selections can be walked together when one has length 1 or both have
\* the same length
Zippable(a, b) == idx_len(a) = 1 \/ idx_len(b) = 1 \/ idx_len(a) = idx_len(b)

\* idx_for_zipped!: the pairs walked; a length-1 side is repeated
idx_for_zipped(a, b) ==
    LET n == IF idx_len(a) = 1 THEN idx_len(b) ELSE idx_len(a)
        at(sel, k) == IF idx_len(sel) = 1 THEN idx_at(sel, 0) ELSE idx_at(sel, k)
    IN [k \in 1..n |-> <<at(a, k - 1), at(b, k - 1)>>]

\* The selections over n slots: every Single, every non-empty Range, and the
\* Indices lists over the first and the last slot
IdxSelections(n) ==
    {Single(i) : i \in 0..(n - 1)}
        \cup {IdxRange(r[1], r[2]) : r \in {q \in (0..n) \X (0..n) : q[1] < q[2]}}
        \cup {Indices(s) : s \in (SeqsUpTo({0, n - 1} \cap (0..(n - 1)), MaxIndicesLen) \ {<<>>})}

\* ------------------------------------------------------- AccCountColumn
\* AggCount::create_acc_column: vec![0; num_rows]
count_create_acc_column(num_rows) == [k \in 1..num_rows |-> 0]

\* AccCountColumn::num_records
count_num_records(values) == Len(values)

\* AccCountColumn::resize: values.resize(num_accs, 0)
count_resize(values, num_accs) ==
    [k \in 1..num_accs |-> IF k <= Len(values) THEN values[k] ELSE 0]

\* Mutation of count_increment: a row counts when any argument is valid
count_increment_any_valid(partial_args, partial_arg_idx) ==
    IF partial_args = <<>> THEN 1
    ELSE IF \E c \in 1..Len(partial_args) : partial_args[c][partial_arg_idx + 1].valid
         THEN 1 ELSE 0

\* What one zipped pair adds: 1 without argument columns, otherwise
\* partial_args.iter().all(|arg| arg.is_valid(partial_arg_idx)) as i64
count_increment(partial_args, partial_arg_idx) ==
    IF partial_args = <<>> THEN 1
    ELSE IF \A c \in 1..Len(partial_args) : partial_args[c][partial_arg_idx + 1].valid
         THEN 1 ELSE 0

\* The loop of partial_update from the k-th zipped pair on
RECURSIVE count_partial_update_from(_, _, _, _)
count_partial_update_from(values, pairs, partial_args, k) ==
    IF k > Len(pairs) THEN values
    ELSE LET acc_idx == pairs[k][1]
             partial_arg_idx == pairs[k][2]
         IN count_partial_update_from(
                [values EXCEPT ![acc_idx + 1] = @ + count_increment(partial_args, partial_arg_idx)],
                pairs, partial_args, k + 1)

\* AggCount::partial_update
count_partial_update(values, acc_idx, partial_args, partial_arg_idx) ==
    count_partial_update_from(values, idx_for_zipped(acc_idx, partial_arg_idx),
                              partial_args, 1)

\* The loop of partial_merge from the k-th zipped pair on
RECURSIVE count_partial_merge_from(_, _, _, _)
count_partial_merge_from(values, pairs, merging_values, k) ==
    IF k > Len(pairs) THEN values
    ELSE LET acc_idx == pairs[k][1]
             merging_acc_idx == pairs[k][2]
         IN count_partial_merge_from(
                [values EXCEPT ![acc_idx + 1] = @ + merging_values[merging_acc_idx + 1]],
                pairs, merging_values, k + 1)

\* Mutation of count_partial_merge: the merging slot is taken at the
\* accumulator's index
count_partial_merge_same_slot(values, acc_idx, merging_values, merging_acc_idx) ==
    count_partial_merge_from(values, idx_for_zipped(acc_idx, acc_idx),
                             merging_values, 1)

\* AggCount::partial_merge
count_partial_merge(values, acc_idx, merging_values, merging_acc_idx) ==
    count_partial_merge_from(values, idx_for_zipped(acc_idx, merging_acc_idx),
                             merging_values, 1)

\* AggCount::final_merge: the Int64Array of the selected slots
count_final_merge(values, acc_idx) ==
    [k \in 1..idx_len(acc_idx) |-> Cell(values[idx_at(acc_idx, k - 1) + 1])]

\* ------------------------------------------- Count: update and final merge
\* The argument columns of a 4-row input batch: row 0 is valid in both, row 1
\* only in Y, row 2 only in X, row 3 in neither
ArgColumnX == <<Cell(10), NullCell, Cell(20), NullCell>>

ArgColumnY == <<Cell(1), Cell(1), NullCell, NullCell>>

\* partial_args: count(*), count(x), count(x, y)
PartialArgs == {<<>>, <<ArgColumnX>>, <<ArgColumnX, ArgColumnY>>}

\* A selection repeated to n entries when it has one, as a dense list
Stretch(sel, n) ==
    IF idx_len(sel) = 1 THEN [k \in 1..n |-> idx_at(sel, 0)] ELSE idx_for(sel)

\* Number of pairs a walk over two selections visits
PairCount(a, b) == IF idx_len(a) >= idx_len(b) THEN idx_len(a) ELSE idx_len(b)

\* The pairs of one partial_update call that name slot g and count: all of
\* them without argument columns, else those whose row is non-null in every
\* argument column
CountedPairs(g, acc_idx, partial_args, partial_arg_idx) ==
    LET n == PairCount(acc_idx, partial_arg_idx)
    IN {k \in 1..n :
            /\ Stretch(acc_idx, n)[k] = g
            /\ \A c \in 1..Len(partial_args) :
                 partial_args[c][Stretch(partial_arg_idx, n)[k] + 1].valid}

\* AggCount::create_acc_column(num_rows)
CountCreateAccColumn ==
    /\ count_log = None
    /\ \E num_rows \in 1..MaxGroups :
         /\ accs' = count_create_acc_column(num_rows)
         /\ count_log' = Some([counted |-> [k \in 1..num_rows |-> 0], updates |-> 0])
    /\ UNCHANGED <<merging_accs, third_accs, rows, offsets, spill_stream, count_out>>
    /\ UNCHANGED <<joinVars, udafVars, ipcVars>>

\* AggCount::partial_update(accs, acc_idx, partial_args, partial_arg_idx)
CountPartialUpdate ==
    /\ count_log # None
    /\ count_out = None
    /\ count_log[1].updates < MaxUpdates
    /\ \E acc_idx \in IdxSelections(Len(accs)), partial_args \in PartialArgs,
          partial_arg_idx \in IdxSelections(Len(ArgColumnX)) :
         /\ Zippable(acc_idx, partial_arg_idx)
         /\ accs' = count_partial_update(accs, acc_idx, partial_args, partial_arg_idx)
         /\ count_log' = Some(
              [counted |-> [k \in 1..Len(accs) |->
                              count_log[1].counted[k]
                                + Cardinality(CountedPairs(k - 1, acc_idx, partial_args,
                                                           partial_arg_idx))],
               updates |-> count_log[1].updates + 1])
    /\ UNCHANGED <<merging_accs, third_accs, rows, offsets, spill_stream, count_out>>
    /\ UNCHANGED <<joinVars, udafVars, ipcVars>>

\* AggCount::final_merge(accs, acc_idx)
CountFinalMerge ==
    /\ count_log # None
    /\ count_out = None
    /\ \E acc_idx \in IdxSelections(Len(accs)) :
         count_out' = Some([acc_idx |-> acc_idx,
                            array |-> count_final_merge(accs, acc_idx)])
    /\ UNCHANGED <<accs, merging_accs, third_accs, rows, offsets, spill_stream, count_log>>
    /\ UNCHANGED <<joinVars, udafVars, ipcVars>>

NextCountUpdate ==
    \/ CountCreateAccColumn
    \/ CountPartialUpdate
    \/ CountFinalMerge

SpecCountUpdate == Init /\ [][NextCountUpdate]_vars

\* C11: after any sequence of partial_update calls on a column created with
\* zeros, slot g holds the number of walked pairs that name g and count (every
\* pair without argument columns, otherwise the pairs whose row is non-null in
\* every argument column), a length-1 selection being repeated over the other
\* side; final_merge returns the selected slots in selection order.
C11_CountCorrect ==
    count_log # None =>
        /\ accs = count_log[1].counted
        /\ count_out # None =>
             count_out[1].array =
                 [k \in 1..idx_len(count_out[1].acc_idx) |->
                    Cell(count_log[1].counted[idx_at(count_out[1].acc_idx, k - 1) + 1])]

\* Two updates have run, one slot counted a broadcast and skipped nulls, the
\* other slot was never named, and the result was materialized
C11_Witness ==
    /\ count_log # None
    /\ count_out # None
    /\ count_log[1].updates = 2
    /\ Len(accs) = 2
    /\ accs[1] = 3
    /\ accs[2] = 0
    /\ count_out[1].array = <<Cell(0), Cell(3)>>

\* --------------------------------- AccCountColumn: rows and spill streams
\* AccCountColumn::freeze_to_rows: the varint of each selected slot is
\* appended to the buffer at the same position
count_freeze_to_rows(values, idx, array) ==
    [k \in 1..Len(array) |->
        IF k <= idx_len(idx)
        THEN array[k] \o write_len(values[idx_at(idx, k - 1) + 1])
        ELSE array[k]]

\* Result of a load into a column: ok, the column, the offsets, the stream
\* position
LoadResult(ok, values, offs, pos) ==
    [ok |-> ok, values |-> values, offsets |-> offs, pos |-> pos]

\* The loop of unfreeze_from_rows from buffer k on; idx is the slot written.
\* A failed read returns before the offset is stored.
RECURSIVE count_unfreeze_from_rows_from(_, _, _, _, _)
count_unfreeze_from_rows_from(values, array, offs, idx, k) ==
    IF k > Len(array) THEN LoadResult(TRUE, values, offs, 0)
    ELSE LET r == read_len(array[k], offs[k])
         IN IF ~r.ok THEN LoadResult(FALSE, values, offs, 0)
            ELSE count_unfreeze_from_rows_from(
                    [values EXCEPT ![idx + 1] = r.value], array,
                    [offs EXCEPT ![k] = r.pos], idx + 1, k + 1)

\* Mutation of count_unfreeze_from_rows: the offsets are not stored back
count_unfreeze_from_rows_offsets_kept(values, array, offs) ==
    [count_unfreeze_from_rows_from(
        count_resize(values, count_num_records(values) + Len(array)),
        array, offs, count_num_records(values), 1) EXCEPT !.offsets = offs]

\* AccCountColumn::unfreeze_from_rows: resize by array.len(), then read one
\* varint per buffer at its offset
count_unfreeze_from_rows(values, array, offs) ==
    count_unfreeze_from_rows_from(
        count_resize(values, count_num_records(values) + Len(array)),
        array, offs, count_num_records(values), 1)

\* Mutation of count_spill: the selection is walked from its end
count_spill_reversed(values, idx) ==
    write_lens([k \in 1..idx_len(idx) |-> values[idx_at(idx, idx_len(idx) - k) + 1]])

\* AccCountColumn::spill: the varints of the selected slots in selection order
count_spill(values, idx) ==
    write_lens([k \in 1..idx_len(idx) |-> values[idx_at(idx, k - 1) + 1]])

\* The loop of unspill: slots i..last are read from the stream in turn
RECURSIVE count_unspill_from(_, _, _, _, _)
count_unspill_from(values, bytes, pos, i, last) ==
    IF i > last THEN LoadResult(TRUE, values, <<>>, pos)
    ELSE LET r == read_len(bytes, pos)
         IN IF ~r.ok THEN LoadResult(FALSE, values, <<>>, r.pos)
            ELSE count_unspill_from([values EXCEPT ![i + 1] = r.value],
                                    bytes, r.pos, i + 1, last)

\* Mutation of count_unspill: the column grows only when every read succeeded
count_unspill_grow_after_read(values, num_rows, bytes, pos) ==
    LET r == count_unspill_from(
                count_resize(values, count_num_records(values) + num_rows),
                bytes, pos, count_num_records(values),
                count_num_records(values) + num_rows - 1)
    IN IF r.ok THEN r ELSE [r EXCEPT !.values = values]

\* AccCountColumn::unspill: resize by num_rows, then read num_rows varints
count_unspill(values, num_rows, bytes, pos) ==
    count_unspill_from(
        count_resize(values, count_num_records(values) + num_rows),
        bytes, pos, count_num_records(values), count_num_records(values) + num_rows - 1)

\* Slot values: the largest one-byte varint and the smallest of two and three
\* bytes, and zero
CountValues == {0, 127, 128, 16384}

\* Columns the operations start from
CountColumns == SeqsUpTo(CountValues, MaxGroups)

\* Columns loaded into: empty, or already holding records
LoadTargets == {<<>>, <<7>>, <<200, 9>>}

\* What a row buffer holds before the freeze
RowPrefixes == {<<>>, <<9>>}

InitCountRows ==
    /\ JoinIdle
    /\ UdafIdle
    /\ IpcIdle
    /\ accs \in CountColumns \ {<<>>}
    /\ merging_accs \in LoadTargets
    /\ third_accs = <<>>
    /\ rows = <<>>
    /\ offsets = <<>>
    /\ spill_stream = [bytes |-> <<>>, pos |-> 0]
    /\ count_log = None
    /\ count_out = None

\* accs.freeze_to_rows(idx, &mut rows), each buffer starting from the prefix
CountFreezeToRows ==
    /\ count_log = None
    /\ \E idx \in IdxSelections(Len(accs)), prefix \in RowPrefixes :
         /\ rows' = count_freeze_to_rows(accs, idx, [k \in 1..idx_len(idx) |-> prefix])
         /\ offsets' = [k \in 1..idx_len(idx) |-> Len(prefix)]
         /\ count_log' = Some([op |-> "freeze_to_rows", idx |-> idx, prefix |-> prefix])
    /\ UNCHANGED <<accs, merging_accs, third_accs, spill_stream, count_out>>
    /\ UNCHANGED <<joinVars, udafVars, ipcVars>>

\* merging_accs.unfreeze_from_rows(&rows, &mut offsets)
CountUnfreezeFromRows ==
    /\ count_log # None
    /\ count_log[1].op = "freeze_to_rows"
    /\ count_out = None
    /\ LET r == count_unfreeze_from_rows(merging_accs, rows, offsets)
       IN /\ merging_accs' = r.values
          /\ offsets' = r.offsets
          /\ count_out' = Some([op |-> "unfreeze_from_rows", ok |-> r.ok,
                                before |-> merging_accs, num_rows |-> Len(rows)])
    /\ UNCHANGED <<accs, third_accs, rows, spill_stream, count_log>>
    /\ UNCHANGED <<joinVars, udafVars, ipcVars>>

\* merging_accs.unfreeze_from_rows(&rows, &mut offsets) when one of the
\* buffers has lost its last byte, so that the read of that row fails
CountUnfreezeFromCutRows ==
    /\ count_log # None
    /\ count_log[1].op = "freeze_to_rows"
    /\ count_out = None
    /\ \E cut \in 1..Len(rows) :
         LET array == [rows EXCEPT ![cut] = SubSeq(@, 1, Len(@) - 1)]
             r == count_unfreeze_from_rows(merging_accs, array, offsets)
         IN /\ rows' = array
            /\ merging_accs' = r.values
            /\ offsets' = r.offsets
            /\ count_out' = Some([op |-> "unfreeze_from_cut_rows", ok |-> r.ok,
                                  before |-> merging_accs, num_rows |-> Len(rows),
                                  cut |-> cut])
    /\ UNCHANGED <<accs, third_accs, spill_stream, count_log>>
    /\ UNCHANGED <<joinVars, udafVars, ipcVars>>

\* accs.spill(idx, &mut writer)
CountSpill ==
    /\ count_log = None
    /\ \E idx \in IdxSelections(Len(accs)) :
         /\ spill_stream' = [bytes |-> count_spill(accs, idx), pos |-> 0]
         /\ count_log' = Some([op |-> "spill", idx |-> idx, prefix |-> <<>>])
    /\ UNCHANGED <<accs, merging_accs, third_accs, rows, offsets, count_out>>
    /\ UNCHANGED <<joinVars, udafVars, ipcVars>>

\* merging_accs.unspill(num_rows, &mut reader); num_rows may exceed what the
\* stream holds by one or two
CountUnspill ==
    /\ count_log # None
    /\ count_log[1].op = "spill"
    /\ count_out = None
    /\ \E num_rows \in 0..(idx_len(count_log[1].idx) + 2) :
         LET r == count_unspill(merging_accs, num_rows, spill_stream.bytes,
                                spill_stream.pos)
         IN /\ merging_accs' = r.values
            /\ spill_stream' = [spill_stream EXCEPT !.pos = r.pos]
            /\ count_out' = Some([op |-> "unspill", ok |-> r.ok,
                                  before |-> merging_accs, num_rows |-> num_rows])
    /\ UNCHANGED <<accs, third_accs, rows, offsets, count_log>>
    /\ UNCHANGED <<joinVars, udafVars, ipcVars>>

NextCountRows ==
    \/ CountFreezeToRows
    \/ CountUnfreezeFromRows
    \/ CountUnfreezeFromCutRows
    \/ CountSpill
    \/ CountUnspill

SpecCountRows == InitCountRows /\ [][NextCountRows]_vars

\* Bytes of the varint of a value below 2^28
VarintSize(v) ==
    IF v < 128 THEN 1 ELSE IF v < 16384 THEN 2 ELSE IF v < 2097152 THEN 3 ELSE 4

\* C12: when all rows of a Count column were frozen in order, each into an
\* empty buffer, and the buffers are unfrozen with offsets 0 into an empty
\* Count column, the loaded column equals the frozen one and each offset is
\* the byte count of that row's varint.
C12_FreezeUnfreezeRoundTrip ==
    ( /\ count_out # None
      /\ count_out[1].op = "unfreeze_from_rows"
      /\ idx_for(count_log[1].idx) = [k \in 1..Len(accs) |-> k - 1]
      /\ count_log[1].prefix = <<>>
      /\ count_out[1].before = <<>> )
    => /\ count_out[1].ok
       /\ merging_accs = accs
       /\ offsets = [k \in 1..Len(accs) |-> VarintSize(accs[k])]

\* A two-row column with a one-byte and a three-byte varint went through
C12_Witness ==
    /\ count_out # None
    /\ count_out[1].op = "unfreeze_from_rows"
    /\ count_log[1].idx = IdxRange(0, 2)
    /\ count_log[1].prefix = <<>>
    /\ count_out[1].before = <<>>
    /\ accs = <<127, 16384>>
    /\ merging_accs = <<127, 16384>>
    /\ offsets = <<1, 3>>

\* C13: spill(idx) of a column S followed by unspill(k), k the length of idx,
\* on a column D of m records succeeds and leaves D with m + k records, the
\* first m as before and the one at m + j equal to S at the j-th index of idx.
C13_SpillUnspillAppends ==
    ( /\ count_out # None
      /\ count_out[1].op = "unspill"
      /\ count_out[1].num_rows = idx_len(count_log[1].idx) )
    => LET m == Len(count_out[1].before)
           k == idx_len(count_log[1].idx)
       IN /\ count_out[1].ok
          /\ Len(merging_accs) = m + k
          /\ \A i \in 1..m : merging_accs[i] = count_out[1].before[i]
          /\ \A j \in 0..(k - 1) :
               merging_accs[m + j + 1] = accs[idx_at(count_log[1].idx, j) + 1]

\* A spill in reversed order was appended behind two existing records
C13_Witness ==
    /\ count_out # None
    /\ count_out[1].op = "unspill"
    /\ count_log[1].idx = Indices(<<1, 0>>)
    /\ count_out[1].num_rows = 2
    /\ accs = <<128, 0>>
    /\ merging_accs = <<200, 9, 0, 128>>

\* ------------------------------------------------------------ Count: merge
\* A column whose slot k holds scale * (k + 1)
ScaledColumn(scale) == [k \in 1..MaxGroups |-> scale * k]

\* Three columns A, B, C over the same groups and one selection for each; the
\* selections can be walked together two by two
InitCountMerge ==
    /\ JoinIdle
    /\ UdafIdle
    /\ IpcIdle
    /\ accs \in {ScaledColumn(0), ScaledColumn(1)}
    /\ merging_accs = ScaledColumn(10)
    /\ third_accs = ScaledColumn(100)
    /\ rows = <<>>
    /\ offsets = <<>>
    /\ spill_stream = [bytes |-> <<>>, pos |-> 0]
    /\ \E a \in IdxSelections(MaxGroups), b \in IdxSelections(MaxGroups),
          c \in IdxSelections(MaxGroups) :
         /\ Zippable(a, b) /\ Zippable(a, c) /\ Zippable(b, c)
         /\ count_log = Some([a0 |-> accs, b0 |-> merging_accs, c0 |-> third_accs,
                              acc_idx |-> a, merging_acc_idx |-> b,
                              third_acc_idx |-> c, done |-> <<>>])
    /\ count_out = None

\* The merges applied so far stay below two and none is repeated
CanMerge(name) ==
    /\ count_log # None
    /\ Len(count_log[1].done) < 2
    /\ \A i \in 1..Len(count_log[1].done) : count_log[1].done[i] # name

\* partial_merge(accs = A, acc_idx, merging_accs = B, merging_acc_idx)
CountMergeBIntoA ==
    /\ CanMerge("BA")
    /\ accs' = count_partial_merge(accs, count_log[1].acc_idx,
                                   merging_accs, count_log[1].merging_acc_idx)
    /\ count_log' = Some([count_log[1] EXCEPT !.done = Append(@, "BA")])
    /\ UNCHANGED <<merging_accs, third_accs, rows, offsets, spill_stream, count_out>>
    /\ UNCHANGED <<joinVars, udafVars, ipcVars>>

\* partial_merge(accs = A, acc_idx, merging_accs = C, third_acc_idx)
CountMergeCIntoA ==
    /\ CanMerge("CA")
    /\ accs' = count_partial_merge(accs, count_log[1].acc_idx,
                                   third_accs, count_log[1].third_acc_idx)
    /\ count_log' = Some([count_log[1] EXCEPT !.done = Append(@, "CA")])
    /\ UNCHANGED <<merging_accs, third_accs, rows, offsets, spill_stream, count_out>>
    /\ UNCHANGED <<joinVars, udafVars, ipcVars>>

\* partial_merge(accs = B, merging_acc_idx, merging_accs = C, third_acc_idx)
CountMergeCIntoB ==
    /\ CanMerge("CB")
    /\ merging_accs' = count_partial_merge(merging_accs, count_log[1].merging_acc_idx,
                                           third_accs, count_log[1].third_acc_idx)
    /\ count_log' = Some([count_log[1] EXCEPT !.done = Append(@, "CB")])
    /\ UNCHANGED <<accs, third_accs, rows, offsets, spill_stream, count_out>>
    /\ UNCHANGED <<joinVars, udafVars, ipcVars>>

NextCountMerge ==
    \/ CountMergeBIntoA
    \/ CountMergeCIntoA
    \/ CountMergeCIntoB

SpecCountMerge == InitCountMerge /\ [][NextCountMerge]_vars

\* Sum over the walked pairs 1..n that name slot g on the first side of the
\* values the second side selects
RECURSIVE SumSelected(_, _, _, _, _)
SumSelected(g, to_idx, from_values, from_idx, n) ==
    IF n = 0 THEN 0
    ELSE LET len == PairCount(to_idx, from_idx)
             here == IF Stretch(to_idx, len)[n] = g
                     THEN from_values[Stretch(from_idx, len)[n] + 1] ELSE 0
         IN here + SumSelected(g, to_idx, from_values, from_idx, n - 1)

\* values plus, slot by slot, what the pairs of (to_idx, from_idx) select
MergedInto(values, to_idx, from_values, from_idx) ==
    [k \in 1..Len(values) |->
        values[k] + SumSelected(k - 1, to_idx, from_values, from_idx,
                                PairCount(to_idx, from_idx))]

\* The selections pair the groups: the three have one length and the one on
\* B names no group twice
GroupsPaired ==
    /\ idx_len(count_log[1].acc_idx) = idx_len(count_log[1].merging_acc_idx)
    /\ idx_len(count_log[1].acc_idx) = idx_len(count_log[1].third_acc_idx)
    /\ \A i, j \in 1..idx_len(count_log[1].merging_acc_idx) :
         idx_for(count_log[1].merging_acc_idx)[i] = idx_for(count_log[1].merging_acc_idx)[j]
            => i = j

\* C14: one partial_merge adds to each selected slot of accs the other
\* column's selected value and leaves the merging column and the unselected
\* slots as they were; merging B then C into A, C then B into A, and, when
\* the selections pair the groups, C into B and then B into A, all give A
\* plus B's and C's contributions per group.
C14_MergeAssocCommut ==
    count_log # None =>
        LET l == count_log[1]
            withB == MergedInto(l.a0, l.acc_idx, l.b0, l.merging_acc_idx)
            withC == MergedInto(l.a0, l.acc_idx, l.c0, l.third_acc_idx)
            withBC == MergedInto(withB, l.acc_idx, l.c0, l.third_acc_idx)
        IN /\ third_accs = l.c0
           /\ l.done = <<"BA">> => accs = withB /\ merging_accs = l.b0
           /\ l.done = <<"CA">> => accs = withC /\ merging_accs = l.b0
           /\ l.done = <<"BA", "CA">> => accs = withBC /\ merging_accs = l.b0
           /\ l.done = <<"CA", "BA">> => accs = withBC /\ merging_accs = l.b0
           /\ (l.done = <<"CB", "BA">> /\ GroupsPaired) => accs = withBC

\* C was merged into B and B into A under a reversed pairing of two groups
C14_Witness ==
    /\ count_log # None
    /\ count_log[1].done = <<"CB", "BA">>
    /\ GroupsPaired
    /\ count_log[1].acc_idx = IdxRange(0, 2)
    /\ count_log[1].merging_acc_idx = Indices(<<1, 0>>)
    /\ count_log[1].a0 = <<1, 2>>
    /\ accs = <<221, 112>>

\* ================================================ external UDAF accumulator
\* ------------------------------------------------------- the host runtime
\* A host row is the byte string of its serialized form.  The aggregate kept
\* by the host is "last non-empty value": a fresh row is empty.
LongRow == [i \in 1..128 |-> i]

\* The parameter rows of an input batch, by row index
ParamColumn == <<<<7>>, LongRow>>

\* Length prefix the host writes before a row: 4 bytes, most significant first
host_length_prefix(n) ==
    <<(n \div 16777216) % 256, (n \div 65536) % 256, (n \div 256) % 256, n % 256>>

\* SparkUDAFWrapperContext.initialize(numRows)
host_initialize(num_rows) == [k \in 1..num_rows |-> <<>>]

\* SparkUDAFWrapperContext.resize(rows, len)
host_resize(hrows, len) ==
    [k \in 1..len |-> IF k <= Len(hrows) THEN hrows[k] ELSE <<>>]

\* SparkUDAFWrapperContext.memUsed(rows)
RECURSIVE host_memUsed(_)
host_memUsed(hrows) ==
    IF hrows = <<>> THEN 0 ELSE Len(hrows[1]) + host_memUsed(Tail(hrows))

\* SparkUDAFWrapperContext.update(rows, idx pairs, params) from pair k on
RECURSIVE host_update(_, _, _, _)
host_update(hrows, pairs, params, k) ==
    IF k > Len(pairs) THEN hrows
    ELSE host_update([hrows EXCEPT ![pairs[k][1] + 1] = params[pairs[k][2] + 1]],
                     pairs, params, k + 1)

\* SparkUDAFWrapperContext.merge(rows, mergingRows, idx pairs) from pair k on
RECURSIVE host_merge(_, _, _, _)
host_merge(hrows, merging, pairs, k) ==
    IF k > Len(pairs) THEN hrows
    ELSE LET m == merging[pairs[k][2] + 1]
         IN host_merge([hrows EXCEPT ![pairs[k][1] + 1] = IF m = <<>> THEN @ ELSE m],
                       merging, pairs, k + 1)

\* SparkUDAFWrapperContext.eval(rows, idx): the selected rows' values
host_eval(hrows, idx) == [k \in 1..idx_len(idx) |-> hrows[idx_at(idx, k - 1) + 1]]

\* SparkUDAFWrapperContext.serializeRows(rows, idx): the selected rows, each
\* behind its length prefix, in one buffer
RECURSIVE host_serializeRows(_, _)
host_serializeRows(hrows, indices) ==
    IF indices = <<>> THEN <<>>
    ELSE LET row == hrows[indices[1] + 1]
         IN host_length_prefix(Len(row)) \o row \o host_serializeRows(hrows, Tail(indices))

\* SparkUDAFWrapperContext.deserializeRows(buffer) from byte offset pos on: the
\* rows read, or a failure when the buffer ends inside a record
RECURSIVE host_deserializeRows(_, _, _)
host_deserializeRows(data, pos, acc) ==
    IF pos = Len(data) THEN [ok |-> TRUE, rows |-> acc]
    ELSE IF pos + 4 > Len(data) THEN [ok |-> FALSE, rows |-> acc]
    ELSE LET n == 16777216 * data[pos + 1] + 65536 * data[pos + 2]
                    + 256 * data[pos + 3] + data[pos + 4]
         IN IF pos + 4 + n > Len(data) THEN [ok |-> FALSE, rows |-> acc]
            ELSE host_deserializeRows(data, pos + 4 + n,
                                      Append(acc, SubSeq(data, pos + 5, pos + 4 + n)))

\* ------------------------------------------------- AccUnsafeRowsColumn
AccUnsafeRowsColumn(obj, num_rows) == [obj |-> obj, num_rows |-> num_rows]

\* (bytes_len as i32).to_le_bytes(): mutation of to_be_bytes
to_le_bytes(n) ==
    <<n % 256, (n \div 256) % 256, (n \div 65536) % 256, (n \div 16777216) % 256>>

\* (bytes_len as i32).to_be_bytes()
to_be_bytes(n) ==
    <<(n \div 16777216) % 256, (n \div 65536) % 256, (n \div 256) % 256, n % 256>>

\* i32::from_be_bytes(data[cur..][..4]) as usize, cur a 0-based offset
from_be_bytes(data, cur) ==
    16777216 * data[cur + 1] + 65536 * data[cur + 2] + 256 * data[cur + 3] + data[cur + 4]

\* Result of a native routine: "ok", "err" or "panic", with what it built
UdafResult(result, array, data, offs) ==
    [result |-> result, array |-> array, data |-> data, offsets |-> offs]

\* The loop of freeze_to_rows over the host's buffer: buffer i receives the
\* varint of the length at cur and the bytes behind it.  A slice past the end
\* of the host's buffer panics.
RECURSIVE udaf_freeze_to_rows_from(_, _, _, _)
udaf_freeze_to_rows_from(data, array, cur, i) ==
    IF i > Len(array) THEN UdafResult("ok", array, data, <<>>)
    ELSE IF cur + 4 > Len(data) THEN UdafResult("panic", array, data, <<>>)
    ELSE LET bytes_len == from_be_bytes(data, cur)
         IN IF cur + 4 + bytes_len > Len(data)
            THEN UdafResult("panic", array, data, <<>>)
            ELSE udaf_freeze_to_rows_from(
                    data,
                    [array EXCEPT ![i] = @ \o write_len(bytes_len)
                                           \o SubSeq(data, cur + 5, cur + 4 + bytes_len)],
                    cur + 4 + bytes_len, i + 1)

\* The loop of unfreeze_from_rows from buffer k on: the buffer for the host
\* is rebuilt and each offset moved behind the record read.  A slice past
\* the end of a row buffer panics; a failed varint read is an error.
RECURSIVE udaf_unfreeze_from_rows_from(_, _, _, _)
udaf_unfreeze_from_rows_from(array, offs, data, k) ==
    IF k > Len(array) THEN UdafResult("ok", array, data, offs)
    ELSE IF offs[k] > Len(array[k]) THEN UdafResult("panic", array, data, offs)
    ELSE LET r == read_len(array[k], offs[k])
         IN IF ~r.ok THEN UdafResult("err", array, data, offs)
            ELSE IF r.pos + r.value > Len(array[k])
            THEN UdafResult("panic", array, data, [offs EXCEPT ![k] = r.pos])
            ELSE udaf_unfreeze_from_rows_from(
                    array, [offs EXCEPT ![k] = r.pos + r.value],
                    data \o to_be_bytes(r.value)
                         \o SubSeq(array[k], r.pos + 1, r.pos + r.value),
                    k + 1)

\* The loop of unspill: the record lengths are read from `data`, which the
\* code has just created empty; the slice of 4 bytes panics when they are
\* not there
RECURSIVE udaf_unspill_data_len(_, _, _)
udaf_unspill_data_len(data, data_len, num_rows) ==
    IF num_rows = 0 THEN UdafResult("ok", <<>>, data_len, <<>>)
    ELSE IF data_len > Len(data) \/ data_len + 4 > Len(data)
    THEN UdafResult("panic", <<>>, data_len, <<>>)
    ELSE udaf_unspill_data_len(data, data_len + from_be_bytes(data, data_len) + 4,
                               num_rows - 1)

\* read_bytes_into_vec(r, &mut data, data_len): data_len bytes of the stream
\* from pos, an error when the stream is shorter
read_bytes_into_vec(bytes, pos, data_len) ==
    IF pos + data_len > Len(bytes) THEN ReadResult(FALSE, <<>>, Len(bytes))
    ELSE ReadResult(TRUE, SubSeq(bytes, pos + 1, pos + data_len), pos + data_len)

\* ------------------------------------------------------------ UDAF: state
\* The history: native calls made, the selection, buffer prefix and host
\* buffer of the last freeze or spill
UdafLog ==
    IF udaf_log = None
    THEN [ops |-> 0, op |-> "", idx |-> Single(0), prefix |-> <<>>, serialized |-> <<>>]
    ELSE udaf_log[1]

\* One more call made
Called == Some([UdafLog EXCEPT !.ops = @ + 1])

\* One more call made: a freeze or spill of idx that got `serialized` from
\* the host
CalledSerialize(op, idx, prefix, serialized) ==
    Some([ops |-> UdafLog.ops + 1, op |-> op, idx |-> idx, prefix |-> prefix,
          serialized |-> serialized])

\* The task runs and may make another call
CanCall ==
    /\ UdafLog.ops < MaxUdafOps
    /\ udaf_out # None => udaf_out[1].result # "panic"

\* How a call ended: "ok", "err" (an error returned) or "panic" (the task is
\* terminated); whether the host failed in it; the columns before it; the
\* buffers handed to deserializeRows; the value returned (for a load: the
\* column loaded into and the number of slices)
Out(op, result, failed, data, value) ==
    Some([op |-> op, result |-> result, failed |-> failed, before |-> udaf_cols,
          data |-> data, value |-> value])

\* The host rows behind a column
HostRows(col) == jheap[col.obj]

\* SparkUDAFWrapper::create_acc_column(num_rows): the context is created on
\* first use; a failure of either host call is unwrapped
UdafCreateAccColumn ==
    /\ CanCall
    /\ Len(udaf_cols) < 2
    /\ \E num_rows \in 0..MaxGroups, fail \in {"none", "context", "initialize"} :
         /\ fail = "context" => jcontext = None
         /\ IF fail = "context"
            THEN /\ udaf_out' = Out("create_acc_column", "panic", TRUE, <<>>, <<>>)
                 /\ UNCHANGED <<jcontext, jheap, udaf_cols>>
            ELSE IF fail = "initialize"
            THEN /\ jcontext' = Some("SparkUDAFWrapperContext")
                 /\ udaf_out' = Out("create_acc_column", "panic", TRUE, <<>>, <<>>)
                 /\ UNCHANGED <<jheap, udaf_cols>>
            ELSE /\ jcontext' = Some("SparkUDAFWrapperContext")
                 /\ jheap' = Append(jheap, host_initialize(num_rows))
                 /\ udaf_cols' = Append(udaf_cols,
                                        AccUnsafeRowsColumn(Len(jheap) + 1, num_rows))
                 /\ udaf_out' = Out("create_acc_column", "ok", FALSE, <<>>, <<>>)
    /\ udaf_log' = Called
    /\ UNCHANGED <<rows, offsets, spill_stream>>
    /\ UNCHANGED <<joinVars, countColumnVars, ipcVars>>

\* AccUnsafeRowsColumn::resize(len): the host call is unwrapped
UdafResize ==
    /\ CanCall
    /\ udaf_cols # <<>>
    /\ \E len \in 0..MaxGroups, fail \in BOOLEAN :
         IF fail
         THEN /\ udaf_out' = Out("resize", "panic", TRUE, <<>>, <<>>)
              /\ UNCHANGED <<jheap, udaf_cols>>
         ELSE /\ jheap' = [jheap EXCEPT ![udaf_cols[1].obj] = host_resize(@, len)]
              /\ udaf_cols' = [udaf_cols EXCEPT ![1].num_rows = len]
              /\ udaf_out' = Out("resize", "ok", FALSE, <<>>, <<>>)
    /\ udaf_log' = Called
    /\ UNCHANGED <<jcontext, rows, offsets, spill_stream>>
    /\ UNCHANGED <<joinVars, countColumnVars, ipcVars>>

\* AccUnsafeRowsColumn::mem_used(): the host call is unwrapped
UdafMemUsed ==
    /\ CanCall
    /\ udaf_cols # <<>>
    /\ \E fail \in BOOLEAN :
         udaf_out' = IF fail THEN Out("mem_used", "panic", TRUE, <<>>, <<>>)
                     ELSE Out("mem_used", "ok", FALSE, <<>>,
                              <<host_memUsed(HostRows(udaf_cols[1]))>>)
    /\ udaf_log' = Called
    /\ UNCHANGED <<jcontext, jheap, udaf_cols, rows, offsets, spill_stream>>
    /\ UNCHANGED <<joinVars, countColumnVars, ipcVars>>

\* The selections handed in over the n rows of a UDAF column: every Single,
\* the whole Range, and the rows from last to first
UdafSelections(n) ==
    {Single(i) : i \in 0..(n - 1)}
        \cup {IdxRange(0, n) : m \in 1..n}
        \cup {Indices([k \in 1..n |-> n - k]) : m \in 2..n}

\* The partial_arg_idx handed in with acc_idx: one parameter row for all, or
\* the first rows one by one
UdafArgSelections(acc_idx) ==
    {Single(i) : i \in 0..(Len(ParamColumn) - 1)}
        \cup {sel \in {IdxRange(0, idx_len(acc_idx))} : idx_len(acc_idx) <= Len(ParamColumn)}

\* SparkUDAFWrapper::partial_update: a failed host call is returned
UdafPartialUpdate ==
    /\ CanCall
    /\ udaf_cols # <<>>
    /\ \E acc_idx \in UdafSelections(udaf_cols[1].num_rows), fail \in BOOLEAN :
         \E partial_arg_idx \in UdafArgSelections(acc_idx) :
           IF fail
           THEN /\ udaf_out' = Out("partial_update", "err", TRUE, <<>>, <<>>)
                /\ UNCHANGED jheap
           ELSE /\ jheap' = [jheap EXCEPT ![udaf_cols[1].obj] =
                               host_update(@, idx_for_zipped(acc_idx, partial_arg_idx),
                                           ParamColumn, 1)]
                /\ udaf_out' = Out("partial_update", "ok", FALSE, <<>>, <<>>)
    /\ udaf_log' = Called
    /\ UNCHANGED <<jcontext, udaf_cols, rows, offsets, spill_stream>>
    /\ UNCHANGED <<joinVars, countColumnVars, ipcVars>>

\* SparkUDAFWrapper::partial_merge of the second column into the first
UdafPartialMerge ==
    /\ CanCall
    /\ Len(udaf_cols) = 2
    /\ \E acc_idx \in UdafSelections(udaf_cols[1].num_rows),
          merging_acc_idx \in UdafSelections(udaf_cols[2].num_rows), fail \in BOOLEAN :
         /\ Zippable(acc_idx, merging_acc_idx)
         /\ IF fail
            THEN /\ udaf_out' = Out("partial_merge", "err", TRUE, <<>>, <<>>)
                 /\ UNCHANGED jheap
            ELSE /\ jheap' = [jheap EXCEPT ![udaf_cols[1].obj] =
                                host_merge(@, HostRows(udaf_cols[2]),
                                           idx_for_zipped(acc_idx, merging_acc_idx), 1)]
                 /\ udaf_out' = Out("partial_merge", "ok", FALSE, <<>>, <<>>)
    /\ udaf_log' = Called
    /\ UNCHANGED <<jcontext, udaf_cols, rows, offsets, spill_stream>>
    /\ UNCHANGED <<joinVars, countColumnVars, ipcVars>>

\* SparkUDAFWrapper::final_merge
UdafFinalMerge ==
    /\ CanCall
    /\ udaf_cols # <<>>
    /\ \E acc_idx \in UdafSelections(udaf_cols[1].num_rows), fail \in BOOLEAN :
         udaf_out' = IF fail THEN Out("final_merge", "err", TRUE, <<>>, <<>>)
                     ELSE Out("final_merge", "ok", FALSE, <<>>,
                              host_eval(HostRows(udaf_cols[1]), acc_idx))
    /\ udaf_log' = Called
    /\ UNCHANGED <<jcontext, jheap, udaf_cols, rows, offsets, spill_stream>>
    /\ UNCHANGED <<joinVars, countColumnVars, ipcVars>>

\* AccUnsafeRowsColumn::freeze_to_rows(idx, array) on the first column, each
\* buffer starting from the prefix: serializeRows, then the split
UdafFreezeToRows ==
    /\ CanCall
    /\ udaf_cols # <<>>
    /\ \E idx \in UdafSelections(udaf_cols[1].num_rows), prefix \in RowPrefixes,
          fail \in BOOLEAN :
         IF fail
         THEN /\ udaf_out' = Out("freeze_to_rows", "err", TRUE, <<>>, <<>>)
              /\ udaf_log' = Called
              /\ UNCHANGED <<rows, offsets>>
         ELSE LET data == host_serializeRows(HostRows(udaf_cols[1]), idx_for(idx))
                  r == udaf_freeze_to_rows_from(
                          data, [k \in 1..idx_len(idx) |-> prefix], 0, 1)
              IN /\ rows' = r.array
                 /\ offsets' = [k \in 1..idx_len(idx) |-> Len(prefix)]
                 /\ udaf_out' = Out("freeze_to_rows", r.result, FALSE, <<>>, <<>>)
                 /\ udaf_log' = CalledSerialize("freeze_to_rows", idx, prefix, data)
    /\ UNCHANGED <<jcontext, jheap, udaf_cols, spill_stream>>
    /\ UNCHANGED <<joinVars, countColumnVars, ipcVars>>

\* AccUnsafeRowsColumn::unfreeze_from_rows(&rows, &mut offsets) on column c:
\* the host's buffer is rebuilt, deserializeRows is called on it, and the
\* column takes the returned rows and array.len() as its num_rows.  The
\* buffers hold one record each and are unfrozen once.
UdafUnfreezeFromRows ==
    /\ CanCall
    /\ UdafLog.op = "freeze_to_rows"
    /\ \E c \in 1..Len(udaf_cols), fail \in BOOLEAN :
         LET r == udaf_unfreeze_from_rows_from(rows, offsets, <<>>, 1)
             parsed == host_deserializeRows(r.data, 0, <<>>)
         IN /\ offsets' = r.offsets
            /\ IF r.result # "ok"
               THEN /\ ~fail
                    /\ udaf_out' = Out("unfreeze_from_rows", r.result, FALSE, <<>>, <<c, Len(rows)>>)
                    /\ UNCHANGED <<jheap, udaf_cols>>
               ELSE IF fail \/ ~parsed.ok
               THEN /\ udaf_out' = Out("unfreeze_from_rows", "err", TRUE, <<r.data>>, <<c, Len(rows)>>)
                    /\ UNCHANGED <<jheap, udaf_cols>>
               ELSE /\ jheap' = Append(jheap, parsed.rows)
                    /\ udaf_cols' = [udaf_cols EXCEPT
                                       ![c] = AccUnsafeRowsColumn(Len(jheap) + 1, Len(rows))]
                    /\ udaf_out' = Out("unfreeze_from_rows", "ok", FALSE, <<r.data>>, <<c, Len(rows)>>)
    /\ udaf_log' = Some([UdafLog EXCEPT !.ops = @ + 1, !.op = "unfreeze_from_rows"])
    /\ UNCHANGED <<jcontext, rows, spill_stream>>
    /\ UNCHANGED <<joinVars, countColumnVars, ipcVars>>

\* AccUnsafeRowsColumn::spill(idx, buf) on the first column: serializeRows,
\* then the host's buffer is written to the stream
UdafSpill ==
    /\ CanCall
    /\ udaf_cols # <<>>
    /\ \E idx \in UdafSelections(udaf_cols[1].num_rows), fail \in BOOLEAN :
         IF fail
         THEN /\ udaf_out' = Out("spill", "err", TRUE, <<>>, <<>>)
              /\ udaf_log' = Called
              /\ UNCHANGED spill_stream
         ELSE LET data == host_serializeRows(HostRows(udaf_cols[1]), idx_for(idx))
              IN /\ spill_stream' = [bytes |-> data, pos |-> 0]
                 /\ udaf_out' = Out("spill", "ok", FALSE, <<>>, <<>>)
                 /\ udaf_log' = CalledSerialize("spill", idx, <<>>, data)
    /\ UNCHANGED <<jcontext, jheap, udaf_cols, rows, offsets>>
    /\ UNCHANGED <<joinVars, countColumnVars, ipcVars>>

\* AccUnsafeRowsColumn::unspill(num_rows, r) on column c: the lengths are
\* looked up in a vector just created empty, then data_len bytes are read and
\* handed to deserializeRows
UdafUnspill ==
    /\ CanCall
    /\ UdafLog.op = "spill"
    /\ \E c \in 1..Len(udaf_cols), num_rows \in 0..idx_len(UdafLog.idx),
          fail \in BOOLEAN :
         LET lens == udaf_unspill_data_len(<<>>, 0, num_rows)
             read == read_bytes_into_vec(spill_stream.bytes, spill_stream.pos, lens.data)
             parsed == host_deserializeRows(read.value, 0, <<>>)
         IN IF lens.result = "panic"
            THEN /\ ~fail
                 /\ udaf_out' = Out("unspill", "panic", FALSE, <<>>, <<c, num_rows>>)
                 /\ UNCHANGED <<jheap, udaf_cols, spill_stream>>
            ELSE IF ~read.ok
            THEN /\ ~fail
                 /\ spill_stream' = [spill_stream EXCEPT !.pos = read.pos]
                 /\ udaf_out' = Out("unspill", "err", FALSE, <<>>, <<c, num_rows>>)
                 /\ UNCHANGED <<jheap, udaf_cols>>
            ELSE IF fail \/ ~parsed.ok
            THEN /\ spill_stream' = [spill_stream EXCEPT !.pos = read.pos]
                 /\ udaf_out' = Out("unspill", "err", TRUE, <<read.value>>, <<c, num_rows>>)
                 /\ UNCHANGED <<jheap, udaf_cols>>
            ELSE /\ spill_stream' = [spill_stream EXCEPT !.pos = read.pos]
                 /\ jheap' = Append(jheap, parsed.rows)
                 /\ udaf_cols' = [udaf_cols EXCEPT
                                    ![c] = AccUnsafeRowsColumn(Len(jheap) + 1, num_rows)]
                 /\ udaf_out' = Out("unspill", "ok", FALSE, <<read.value>>, <<c, num_rows>>)
    /\ udaf_log' = Some([UdafLog EXCEPT !.ops = @ + 1, !.op = "unspill"])
    /\ UNCHANGED <<jcontext, rows, offsets>>
    /\ UNCHANGED <<joinVars, countColumnVars, ipcVars>>

NextUdaf ==
    \/ UdafCreateAccColumn
    \/ UdafResize
    \/ UdafMemUsed
    \/ UdafPartialUpdate
    \/ UdafPartialMerge
    \/ UdafFinalMerge
    \/ UdafFreezeToRows
    \/ UdafUnfreezeFromRows
    \/ UdafSpill
    \/ UdafUnspill

SpecUdaf == Init /\ [][NextUdaf]_vars

\* The host rows a selection of the first column names, in selection order
SelectedHostRows == host_eval(HostRows(udaf_cols[1]), UdafLog.idx)

\* The last call was a load (unfreeze_from_rows or unspill) that succeeded
UdafLoaded ==
    /\ udaf_out # None
    /\ udaf_out[1].op \in {"unfreeze_from_rows", "unspill"}
    /\ udaf_out[1].result = "ok"

\* C15: unfreeze_from_rows and unspill append on every accumulator column: a
\* column holding k records has k + m records after a successful load of m
\* slices, and its first k records are as before.
C15_LoadAppends ==
    /\ (count_out # None /\ count_out[1].ok) =>
         /\ Len(merging_accs) = Len(count_out[1].before) + count_out[1].num_rows
         /\ SubSeq(merging_accs, 1, Len(count_out[1].before)) = count_out[1].before
    /\ UdafLoaded =>
         LET c == udaf_out[1].value[1]
             m == udaf_out[1].value[2]
             old == udaf_out[1].before[c]
         IN /\ udaf_cols[c].num_rows = old.num_rows + m
            /\ Len(HostRows(udaf_cols[c])) = old.num_rows + m
            /\ SubSeq(HostRows(udaf_cols[c]), 1, old.num_rows) = jheap[old.obj]

\* C16: unspill(n) with n >= 1 after a spill in which the host did not fail
\* completes without error, hands exactly the spilled bytes to
\* deserializeRows and leaves the column with the records read.
C16_UnspillReadsSpill ==
    ( /\ udaf_out # None
      /\ udaf_out[1].op = "unspill"
      /\ udaf_out[1].value[2] >= 1
      /\ udaf_out[1].value[2] = idx_len(UdafLog.idx)
      /\ ~udaf_out[1].failed )
    => /\ udaf_out[1].result = "ok"
       /\ udaf_out[1].data = <<UdafLog.serialized>>
       /\ spill_stream.pos = Len(spill_stream.bytes)
       /\ udaf_cols[udaf_out[1].value[1]].num_rows
            = Len(HostRows(udaf_cols[udaf_out[1].value[1]]))

\* C17: a freeze splits the host's buffer into one record per row buffer, the
\* varint of the row's length L and its L bytes, using up 4 + L host bytes
\* per row; the unfreeze of those buffers never panics, hands the host's
\* buffer back to deserializeRows unchanged in one call, and moves each
\* offset by the varint's size plus L.
C17_FreezeUnfreezeWire ==
    /\ ( /\ udaf_out # None
         /\ udaf_out[1].op = "freeze_to_rows"
         /\ ~udaf_out[1].failed )
       => /\ udaf_out[1].result = "ok"
          /\ Len(rows) = idx_len(UdafLog.idx)
          /\ \A k \in 1..Len(rows) :
               rows[k] = UdafLog.prefix \o write_len(Len(SelectedHostRows[k]))
                            \o SelectedHostRows[k]
          /\ Len(UdafLog.serialized)
               = host_memUsed(SelectedHostRows) + 4 * Len(rows)
    /\ ( /\ udaf_out # None
         /\ udaf_out[1].op = "unfreeze_from_rows" )
       => /\ udaf_out[1].result = "ok" \/ udaf_out[1].failed
          /\ udaf_out[1].data = <<UdafLog.serialized>>
          /\ \A k \in 1..Len(rows) :
               LET r == read_len(rows[k], Len(UdafLog.prefix))
               IN offsets[k] = Len(UdafLog.prefix) + VarintSize(r.value) + r.value

\* Rows of 128 and 1 bytes, frozen in reversed order behind a prefix, were
\* unfrozen: the long row's offset moved by a two-byte varint and 128 bytes
C17_Witness ==
    /\ udaf_out # None
    /\ udaf_out[1].op = "unfreeze_from_rows"
    /\ udaf_out[1].result = "ok"
    /\ UdafLog.idx = Indices(<<1, 0>>)
    /\ UdafLog.prefix = <<9>>
    /\ offsets = <<131, 3>>
    /\ Len(UdafLog.serialized) = 137

\* C18: a failure of any host call is returned to the caller as an error, the
\* task keeps running, and the column's handle and num_records stay as they
\* were.
C18_HostFailureIsError ==
    (udaf_out # None /\ udaf_out[1].failed) =>
        /\ udaf_out[1].result = "err"
        /\ udaf_cols = udaf_out[1].before

\* ======================================================= headless Arrow IPC
\* A batch of one column: its cells, and the dictionary when the column is
\* dictionary-encoded (the cells are then keys into the dictionary)
IpcBatch(column, dictionary) ==
    [num_rows |-> Len(column), column |-> column, dictionary |-> dictionary]

\* The batches written: no row, one row, three rows with a null, and a
\* dictionary-encoded column
IpcBatches ==
    {IpcBatch(<<>>, None),
     IpcBatch(<<Cell(5)>>, None),
     IpcBatch(<<Cell(1), NullCell, Cell(200)>>, None),
     IpcBatch(<<Cell(1), Cell(0)>>, Some(<<10, 20>>))}

\* ------------------------------------------------- Arrow message encoding
\* Bytes padded with zeros to a multiple of 8
pad8(bytes) == bytes \o [k \in 1..((8 - (Len(bytes) % 8)) % 8) |-> 0]

\* The body of a column: a validity byte per cell, then a value byte per
\* cell, each part padded
encode_column(column) ==
    pad8([k \in 1..Len(column) |-> IF column[k].valid THEN 1 ELSE 0])
        \o pad8([k \in 1..Len(column) |-> column[k].v])

\* The cells of a body of num_rows rows
decode_column(buf, num_rows) ==
    LET values_at == Len(pad8([k \in 1..num_rows |-> 0]))
    IN [k \in 1..num_rows |->
          IF buf[k] = 1 THEN Cell(buf[values_at + k]) ELSE NullCell]

\* ipc::MessageHeader as the byte that stands for it in the metadata
header_code(header_type) ==
    CASE header_type = "NONE" -> 0
      [] header_type = "Schema" -> 1
      [] header_type = "DictionaryBatch" -> 2
      [] header_type = "RecordBatch" -> 3
      [] header_type = "Tensor" -> 4

\* An encoded message: header type, row count and body
Message(header_type, num_rows, body) ==
    [header_type |-> header_type, num_rows |-> num_rows, body |-> body]

\* The metadata of a message, standing for its flatbuffer: header type,
\* bodyLength, row count, padding
message_meta(m) == <<header_code(m.header_type), Len(m.body), m.num_rows, 0, 0, 0, 0, 0>>

\* i32::to_le_bytes of a value that is not negative
i32_to_le_bytes(n) ==
    <<n % 256, (n \div 256) % 256, (n \div 65536) % 256, n \div 16777216>>

\* write_message: continuation marker, metadata length (little-endian),
\* metadata, body
write_message(m) ==
    <<255, 255, 255, 255>> \o i32_to_le_bytes(Len(message_meta(m)))
        \o message_meta(m) \o m.body

\* IpcDataGenerator::encoded_batch with the dictionary tracker: a dictionary
\* is encoded when the tracker does not hold it yet
encoded_batch(batch, dictionary_tracker) ==
    [encoded_dictionaries |->
        IF batch.dictionary # None /\ batch.dictionary # dictionary_tracker
        THEN <<Message("DictionaryBatch", Len(batch.dictionary[1]), pad8(batch.dictionary[1]))>>
        ELSE <<>>,
     encoded_message |-> Message("RecordBatch", batch.num_rows, encode_column(batch.column)),
     dictionary_tracker |->
        IF batch.dictionary # None THEN batch.dictionary ELSE dictionary_tracker]

\* ------------------------------------------------------------- zstd frames
\* The compressed form of a byte string: runs of equal bytes as (length,
\* byte) pairs
RECURSIVE run_length(_, _)
run_length(bytes, k) ==
    IF k > Len(bytes) \/ bytes[k] # bytes[1] THEN k - 1 ELSE run_length(bytes, k + 1)

RECURSIVE zstd_compress(_)
zstd_compress(bytes) ==
    IF bytes = <<>> THEN <<>>
    ELSE LET n == run_length(bytes, 1)
         IN <<n, bytes[1]>> \o zstd_compress(SubSeq(bytes, n + 1, Len(bytes)))

\* zstd::Encoder ... finish(): the frame of everything written to it
zstd_encode(bytes) == <<40, 181, 47, 253>> \o zstd_compress(bytes)

RECURSIVE zstd_decompress(_, _)
zstd_decompress(bytes, pos) ==
    IF pos + 2 > Len(bytes) THEN <<>>
    ELSE [k \in 1..bytes[pos + 1] |-> bytes[pos + 2]] \o zstd_decompress(bytes, pos + 2)

\* zstd::Decoder: the bytes of a frame, an error when it is not one
zstd_decode(bytes) ==
    IF Len(bytes) >= 4 /\ SubSeq(bytes, 1, 4) = <<40, 181, 47, 253>> /\ Len(bytes) % 2 = 0
    THEN [ok |-> TRUE, bytes |-> zstd_decompress(bytes, 4)]
    ELSE [ok |-> FALSE, bytes |-> <<>>]

\* --------------------------------------------------------------- the sink
\* output.write_all(data) at the sink's position: bytes there are
\* overwritten, the sink grows as needed
write_all(output, data) ==
    LET last == output.pos + Len(data)
        len == IF last > Len(output.bytes) THEN last ELSE Len(output.bytes)
    IN [bytes |-> [k \in 1..len |->
                     IF k > output.pos /\ k <= last THEN data[k - output.pos]
                     ELSE output.bytes[k]],
        pos |-> last]

\* output.seek(SeekFrom::Start(pos))
seek(output, pos) == [output EXCEPT !.pos = pos]

\* u64::to_le_bytes of a value below 2^31
u64_to_le_bytes(n) == i32_to_le_bytes(n) \o <<0, 0, 0, 0>>

\* ---------------------------------------------------- HeadlessStreamWriter
\* HeadlessStreamWriter::new: nothing buffered, not finished, no dictionary
\* tracked
HeadlessStreamWriter_new ==
    [writer |-> <<>>, finished |-> FALSE, dictionary_tracker |-> None]

\* Concatenation of the written form of each message
RECURSIVE write_messages(_)
write_messages(messages) ==
    IF messages = <<>> THEN <<>>
    ELSE write_message(messages[1]) \o write_messages(Tail(messages))

\* Mutation of HeadlessStreamWriter_write: the finished flag is not looked at
HeadlessStreamWriter_write_unchecked(w, batch) ==
    LET e == encoded_batch(batch, w.dictionary_tracker)
    IN [ok |-> TRUE,
        w |-> [w EXCEPT !.writer = @ \o write_messages(e.encoded_dictionaries)
                                     \o write_message(e.encoded_message),
                        !.dictionary_tracker = e.dictionary_tracker]]

\* HeadlessStreamWriter::write: an error when finished, else the dictionary
\* messages and the batch message go to the buffered writer
HeadlessStreamWriter_write(w, batch) ==
    IF w.finished THEN [ok |-> FALSE, w |-> w]
    ELSE LET e == encoded_batch(batch, w.dictionary_tracker)
         IN [ok |-> TRUE,
             w |-> [w EXCEPT !.writer = @ \o write_messages(e.encoded_dictionaries)
                                          \o write_message(e.encoded_message),
                             !.dictionary_tracker = e.dictionary_tracker]]

\* HeadlessStreamWriter::finish: an error when finished, else the flag is set
\* and nothing is written
HeadlessStreamWriter_finish(w) ==
    IF w.finished THEN [ok |-> FALSE, w |-> w]
    ELSE [ok |-> TRUE, w |-> [w EXCEPT !.finished = TRUE]]

\* HeadlessStreamWriter::into_inner: finish if need be, then the buffered
\* bytes are flushed
HeadlessStreamWriter_into_inner(w) ==
    LET f == IF ~w.finished THEN HeadlessStreamWriter_finish(w) ELSE [ok |-> TRUE, w |-> w]
    IN [ok |-> f.ok, flushed |-> f.w.writer]

\* Mutation of write_one_batch: the length written counts the placeholder
write_one_batch_length_with_header(batch, output, compress) ==
    IF batch.num_rows = 0 THEN [ok |-> TRUE, value |-> 0, output |-> output]
    ELSE LET start_pos == output.pos
             placeholder == write_all(output, <<0, 0, 0, 0, 0, 0, 0, 0>>)
             written == HeadlessStreamWriter_write(HeadlessStreamWriter_new, batch)
             finished == HeadlessStreamWriter_finish(written.w)
             inner == HeadlessStreamWriter_into_inner(finished.w)
             payload == IF compress THEN zstd_encode(inner.flushed) ELSE inner.flushed
             after == write_all(placeholder, payload)
             end_pos == after.pos
             ipc_length == end_pos - start_pos
             filled == write_all(seek(after, start_pos), u64_to_le_bytes(ipc_length))
         IN [ok |-> written.ok /\ finished.ok /\ inner.ok,
             value |-> end_pos - start_pos,
             output |-> seek(filled, end_pos)]

\* write_one_batch(batch, output, compress)
write_one_batch(batch, output, compress) ==
    IF batch.num_rows = 0 THEN [ok |-> TRUE, value |-> 0, output |-> output]
    ELSE LET start_pos == output.pos
             placeholder == write_all(output, <<0, 0, 0, 0, 0, 0, 0, 0>>)
             written == HeadlessStreamWriter_write(HeadlessStreamWriter_new, batch)
             finished == HeadlessStreamWriter_finish(written.w)
             inner == HeadlessStreamWriter_into_inner(finished.w)
             payload == IF compress THEN zstd_encode(inner.flushed) ELSE inner.flushed
             after == write_all(placeholder, payload)
             end_pos == after.pos
             ipc_length == end_pos - start_pos - 8
             filled == write_all(seek(after, start_pos), u64_to_le_bytes(ipc_length))
         IN [ok |-> written.ok /\ finished.ok /\ inner.ok,
             value |-> end_pos - start_pos,
             output |-> seek(filled, end_pos)]

\* ---------------------------------------------------- HeadlessStreamReader
\* reader.read_exact of n bytes: the bytes and the input after them, or a
\* failure at the end of the input
read_exact(input, n) ==
    IF input.pos + n <= Len(input.bytes)
    THEN [ok |-> TRUE, buf |-> SubSeq(input.bytes, input.pos + 1, input.pos + n),
          input |-> [input EXCEPT !.pos = @ + n]]
    ELSE [ok |-> FALSE, buf |-> <<>>, input |-> [input EXCEPT !.pos = Len(input.bytes)]]

\* i32::from_le_bytes
i32_from_le_bytes(b) ==
    LET low == b[1] + 256 * b[2] + 65536 * b[3] + 16777216 * (b[4] % 128)
    IN IF b[4] >= 128 THEN low - 2147483647 - 1 ELSE low

\* ipc::root_as_message: the metadata as a message, an error when it is not
\* one
root_as_message(meta_buffer) ==
    IF Len(meta_buffer) >= 3 /\ meta_buffer[1] \in 0..4
    THEN [ok |-> TRUE, header_type |-> meta_buffer[1], bodyLength |-> meta_buffer[2],
          num_rows |-> meta_buffer[3]]
    ELSE [ok |-> FALSE, header_type |-> 0, bodyLength |-> 0, num_rows |-> 0]

\* read_record_batch: the batch of a body under the schema and the
\* dictionaries read so far
read_record_batch(buf, num_rows, schema, dictionaries_by_id) ==
    IF Len(buf) < 2 * Len(pad8([k \in 1..num_rows |-> 0]))
         \/ (schema = "dictionary" /\ dictionaries_by_id = None)
    THEN [ok |-> FALSE, batch |-> None]
    ELSE [ok |-> TRUE,
          batch |-> Some(IpcBatch(decode_column(buf, num_rows),
                                  IF schema = "dictionary" THEN dictionaries_by_id
                                  ELSE None))]

\* read_dictionary: the dictionary of a body, kept in dictionaries_by_id
read_dictionary(buf, num_rows, schema, dictionaries_by_id) ==
    IF schema # "dictionary" \/ Len(buf) < num_rows
    THEN [ok |-> FALSE, dictionaries_by_id |-> dictionaries_by_id]
    ELSE [ok |-> TRUE, dictionaries_by_id |-> Some(SubSeq(buf, 1, num_rows))]

\* HeadlessStreamReader::new
HeadlessStreamReader_new(schema) ==
    [schema |-> schema, finished |-> FALSE, dictionaries_by_id |-> None]

\* What a call of maybe_next gives: "batch" (Ok(Some)), "none" (Ok(None)),
\* "err" or "panic", the reader and the input after it
NextResult(result, batch, r, input) ==
    [result |-> result, batch |-> batch, r |-> r, input |-> input]

\* HeadlessStreamReader::maybe_next
RECURSIVE maybe_next(_, _)
maybe_next(r, input) ==
    IF r.finished THEN NextResult("none", None, r, input)
    ELSE
    LET first == read_exact(input, 4)
    IN
    IF ~first.ok THEN NextResult("none", None, [r EXCEPT !.finished = TRUE], first.input)
    ELSE
    LET marker == first.buf = <<255, 255, 255, 255>>
        second == IF marker THEN read_exact(first.input, 4) ELSE first
    IN
    IF ~second.ok THEN NextResult("err", None, r, second.input)
    ELSE
    LET meta_len == i32_from_le_bytes(second.buf)
    IN
    IF meta_len = 0
    THEN NextResult("none", None, [r EXCEPT !.finished = TRUE], second.input)
    ELSE IF meta_len < 0 THEN NextResult("panic", None, r, second.input)
    ELSE
    LET meta == read_exact(second.input, meta_len)
    IN
    IF ~meta.ok THEN NextResult("err", None, r, meta.input)
    ELSE
    LET message == root_as_message(meta.buf)
    IN
    IF ~message.ok THEN NextResult("err", None, r, meta.input)
    ELSE IF message.header_type = header_code("RecordBatch")
    THEN LET body == read_exact(meta.input, message.bodyLength)
             read == read_record_batch(body.buf, message.num_rows, r.schema,
                                       r.dictionaries_by_id)
         IN IF ~body.ok THEN NextResult("err", None, r, body.input)
            ELSE IF ~read.ok THEN NextResult("err", None, r, body.input)
            ELSE NextResult("batch", read.batch, r, body.input)
    ELSE IF message.header_type = header_code("DictionaryBatch")
    THEN LET body == read_exact(meta.input, message.bodyLength)
             read == read_dictionary(body.buf, message.num_rows, r.schema,
                                     r.dictionaries_by_id)
         IN IF ~body.ok THEN NextResult("err", None, r, body.input)
            ELSE IF ~read.ok THEN NextResult("err", None, r, body.input)
            ELSE maybe_next([r EXCEPT !.dictionaries_by_id = read.dictionaries_by_id],
                            body.input)
    ELSE IF message.header_type = header_code("NONE")
    THEN NextResult("none", None, r, meta.input)
    ELSE NextResult("err", None, r, meta.input)

\* u64::from_le_bytes: the value of 8 little-endian bytes, -1 standing for
\* every value of 2^31 or more
u64_from_le_bytes(b) ==
    IF b[5] = 0 /\ b[6] = 0 /\ b[7] = 0 /\ b[8] = 0 /\ b[4] < 128
    THEN b[1] + 256 * b[2] + 65536 * b[3] + 16777216 * b[4]
    ELSE -1

\* Mutation of read_one_batch: the input is not limited to the length read
read_one_batch_untaken(input, schema, compress, has_length_header) ==
    LET head == IF has_length_header THEN read_exact(input, 8)
                ELSE [ok |-> TRUE, buf |-> <<>>, input |-> input]
        available == Len(input.bytes) - head.input.pos
        taken == SubSeq(input.bytes, head.input.pos + 1, head.input.pos + available)
        decoded == IF compress THEN zstd_decode(taken) ELSE [ok |-> TRUE, bytes |-> taken]
        next == maybe_next(HeadlessStreamReader_new(schema),
                           [bytes |-> decoded.bytes, pos |-> 0])
    IN IF ~head.ok THEN [result |-> "err", batch |-> None, input |-> head.input]
       ELSE [result |-> IF ~decoded.ok THEN "err"
                        ELSE IF next.result = "none" THEN "panic"
                        ELSE next.result,
             batch |-> IF decoded.ok THEN next.batch ELSE None,
             input |-> [head.input EXCEPT !.pos = @ + available]]

\* read_one_batch(input, schema, compress, has_length_header): the 8-byte
\* length is read and the input limited to it (input.take(len)); the batch
\* is the first one of a HeadlessStreamReader over that, through a zstd
\* decoder when compress; no batch there is a panic (next().unwrap()). The
\* buffered readers fetch all the limited input holds, every payload here
\* being shorter than their buffers
read_one_batch(input, schema, compress, has_length_header) ==
    LET head == IF has_length_header THEN read_exact(input, 8)
                ELSE [ok |-> TRUE, buf |-> <<>>, input |-> input]
        available == Len(input.bytes) - head.input.pos
        len == IF has_length_header THEN u64_from_le_bytes(head.buf) ELSE -1
        limit == IF len < 0 \/ len > available THEN available ELSE len
        taken == SubSeq(input.bytes, head.input.pos + 1, head.input.pos + limit)
        decoded == IF compress THEN zstd_decode(taken) ELSE [ok |-> TRUE, bytes |-> taken]
        next == maybe_next(HeadlessStreamReader_new(schema),
                           [bytes |-> decoded.bytes, pos |-> 0])
    IN IF ~head.ok THEN [result |-> "err", batch |-> None, input |-> head.input]
       ELSE [result |-> IF ~decoded.ok THEN "err"
                        ELSE IF next.result = "none" THEN "panic"
                        ELSE next.result,
             batch |-> IF decoded.ok THEN next.batch ELSE None,
             input |-> [head.input EXCEPT !.pos = @ + limit]]

\* ------------------------------------------------------------- IPC: state
\* The history: calls made so far
IpcOps == IF ipc_out = None THEN 0 ELSE ipc_out[1].ops

\* The task runs and may make another call
IpcCanCall ==
    /\ IpcOps < MaxIpcOps
    /\ ipc_out # None => ipc_out[1].result # "panic"

\* The history: the frames written by write_one_batch so far, each with
\* the position it starts at, its batch, its flag and its size
IpcFrames == IF ipc_out = None THEN <<>> ELSE ipc_out[1].frames

\* How a call ended: "ok", "batch", "none", "err" or "panic"; the value
\* returned; the batch and flag handed in; the sink before the call; for a
\* read_one_batch its schema, its has_length_header and the position of the
\* input before it
IpcOut(op, result, value, batch, compress) ==
    Some([ops |-> IpcOps + 1, op |-> op, result |-> result, value |-> value,
          batch |-> batch, compress |-> compress, before |-> sink,
          frames |-> IpcFrames, read |-> None])

\* The written form of a batch by a fresh writer
Written(batch) ==
    HeadlessStreamWriter_into_inner(
        HeadlessStreamWriter_write(HeadlessStreamWriter_new, batch).w).flushed

\* The message of the one-row batch
OneRowMessage == Written(IpcBatch(<<Cell(5)>>, None))

\* The inputs read: nothing, well-formed streams, streams with an end mark
\* in front of data, truncated streams and messages that are not batches
IpcInputs ==
    {<<>>,
     OneRowMessage,
     OneRowMessage \o Written(IpcBatch(<<Cell(1), NullCell, Cell(200)>>, None)),
     <<0, 0, 0, 0>> \o OneRowMessage,
     <<255, 255, 255, 255, 0, 0, 0, 0>> \o OneRowMessage,
     <<255, 255, 255, 255>>,
     <<255, 255, 255, 255, 255, 255, 255, 255>>,
     <<8, 0>>,
     <<255, 255, 255, 255, 2, 0, 0, 0, 9, 9>>,
     SubSeq(OneRowMessage, 5, Len(OneRowMessage)),
     SubSeq(OneRowMessage, 1, Len(OneRowMessage) - 1),
     write_message(Message("NONE", 0, <<>>)) \o OneRowMessage,
     write_message(Message("Schema", 0, <<>>)) \o OneRowMessage,
     write_message(Message("Tensor", 0, <<>>))}

\* The input of a dictionary-encoded column: its dictionary, then end of
\* input, the end mark or the batch
IpcDictionaryInputs ==
    {Written(IpcBatch(<<Cell(1), Cell(0)>>, Some(<<10, 20>>))),
     SubSeq(Written(IpcBatch(<<Cell(1), Cell(0)>>, Some(<<10, 20>>))), 1, 24),
     SubSeq(Written(IpcBatch(<<Cell(1), Cell(0)>>, Some(<<10, 20>>))), 1, 24)
         \o <<0, 0, 0, 0>> \o OneRowMessage}

\* The inputs with the schema they are read under; a dictionary met under
\* a plain schema is an error
IpcGivenReads ==
    {[bytes |-> b, schema |-> "plain"] : b \in IpcInputs}
        \cup {[bytes |-> b, schema |-> "dictionary"] : b \in IpcDictionaryInputs}
        \cup {[bytes |-> Written(IpcBatch(<<Cell(1), Cell(0)>>, Some(<<10, 20>>))),
                schema |-> "plain"]}

\* What a reader is opened on: one of the given inputs when nothing was
\* called before, or what the sink holds
IpcReads ==
    (IF ipc_out = None THEN IpcGivenReads ELSE {})
        \cup {[bytes |-> sink.bytes, schema |-> schema] :
                 schema \in {"plain", "dictionary"}}

\* The sinks written to: empty, at the end of three bytes, and inside twelve
\* bytes
IpcSinks ==
    {[bytes |-> <<>>, pos |-> 0],
     [bytes |-> <<1, 2, 3>>, pos |-> 3],
     [bytes |-> <<1, 2, 3, 4, 5, 6, 7, 8, 9, 10, 11, 12>>, pos |-> 1]}

InitIpc ==
    /\ JoinIdle /\ CountIdle /\ UdafIdle
    /\ sink \in IpcSinks
    /\ ipc_writer = None
    /\ ipc_input = [bytes |-> <<>>, pos |-> 0]
    /\ ipc_reader = None
    /\ ipc_out = None

\* The sink is written before it is read: no reader is open and no
\* read_one_batch was made
IpcWriting == ipc_reader = None /\ ipc_input.bytes = <<>>

\* HeadlessStreamWriter::new(output, schema)
IpcWriterNew ==
    /\ IpcCanCall
    /\ ipc_writer = None
    /\ IpcWriting
    /\ ipc_writer' = Some(HeadlessStreamWriter_new)
    /\ ipc_out' = IpcOut("new", "ok", 0, None, FALSE)
    /\ UNCHANGED <<sink, ipc_input, ipc_reader>>
    /\ UNCHANGED <<joinVars, countVars, udafVars>>

\* arrow_writer.write(batch)
IpcWriterWrite ==
    /\ IpcCanCall
    /\ ipc_writer # None
    /\ IpcWriting
    /\ \E batch \in IpcBatches :
         LET res == HeadlessStreamWriter_write(ipc_writer[1], batch)
         IN /\ ipc_writer' = Some(res.w)
            /\ ipc_out' = IpcOut("write", IF res.ok THEN "ok" ELSE "err", 0,
                                 Some(batch), FALSE)
    /\ UNCHANGED <<sink, ipc_input, ipc_reader>>
    /\ UNCHANGED <<joinVars, countVars, udafVars>>

\* arrow_writer.finish()
IpcWriterFinish ==
    /\ IpcCanCall
    /\ ipc_writer # None
    /\ IpcWriting
    /\ LET res == HeadlessStreamWriter_finish(ipc_writer[1])
       IN /\ ipc_writer' = Some(res.w)
          /\ ipc_out' = IpcOut("finish", IF res.ok THEN "ok" ELSE "err", 0, None, FALSE)
    /\ UNCHANGED <<sink, ipc_input, ipc_reader>>
    /\ UNCHANGED <<joinVars, countVars, udafVars>>

\* arrow_writer.into_inner(): the writer is consumed and what it buffered
\* reaches the sink
IpcWriterIntoInner ==
    /\ IpcCanCall
    /\ ipc_writer # None
    /\ IpcWriting
    /\ LET res == HeadlessStreamWriter_into_inner(ipc_writer[1])
       IN /\ sink' = write_all(sink, res.flushed)
          /\ ipc_out' = IpcOut("into_inner", IF res.ok THEN "ok" ELSE "err", 0,
                               None, FALSE)
    /\ ipc_writer' = None
    /\ UNCHANGED <<ipc_input, ipc_reader>>
    /\ UNCHANGED <<joinVars, countVars, udafVars>>

\* write_one_batch(batch, output, compress) on the sink
IpcWriteOneBatch ==
    /\ IpcCanCall
    /\ ipc_writer = None
    /\ IpcWriting
    /\ \E batch \in IpcBatches, compress \in BOOLEAN :
         LET res == write_one_batch(batch, sink, compress)
             out == IpcOut("write_one_batch", IF res.ok THEN "ok" ELSE "err",
                           res.value, Some(batch), compress)[1]
         IN /\ sink' = res.output
            /\ ipc_out' = Some([out EXCEPT !.frames =
                                 IF batch.num_rows = 0 THEN @
                                 ELSE Append(@, [at |-> sink.pos, batch |-> batch,
                                                 compress |-> compress,
                                                 size |-> res.value])])
    /\ UNCHANGED <<ipc_writer, ipc_input, ipc_reader>>
    /\ UNCHANGED <<joinVars, countVars, udafVars>>

\* HeadlessStreamReader::new(input, schema) over one of the inputs or over
\* what the sink holds, once the writing is over
IpcReaderNew ==
    /\ IpcCanCall
    /\ ipc_reader = None
    /\ \E read \in IpcReads :
         /\ ipc_input' = [bytes |-> read.bytes, pos |-> 0]
         /\ ipc_reader' = Some(HeadlessStreamReader_new(read.schema))
    /\ ipc_out' = IpcOut("reader_new", "ok", 0, None, FALSE)
    /\ UNCHANGED <<sink, ipc_writer>>
    /\ UNCHANGED <<joinVars, countVars, udafVars>>

\* arrow_reader.next()
IpcReaderNext ==
    /\ IpcCanCall
    /\ ipc_reader # None
    /\ LET res == maybe_next(ipc_reader[1], ipc_input)
       IN /\ ipc_reader' = Some(res.r)
          /\ ipc_input' = res.input
          /\ ipc_out' = IpcOut("next", res.result, 0, res.batch, FALSE)
    /\ UNCHANGED <<sink, ipc_writer>>
    /\ UNCHANGED <<joinVars, countVars, udafVars>>

\* Where a reader of the sink's content starts: at the first frame, or at
\* the first byte when no frame was written
IpcStart == IF IpcFrames = <<>> THEN 0 ELSE IpcFrames[1].at

\* The schema and flags handed to read_one_batch
IpcReadArgs ==
    {[schema |-> "plain", compress |-> FALSE, has_length_header |-> TRUE],
     [schema |-> "plain", compress |-> TRUE, has_length_header |-> TRUE],
     [schema |-> "dictionary", compress |-> FALSE, has_length_header |-> TRUE],
     [schema |-> "dictionary", compress |-> TRUE, has_length_header |-> TRUE],
     [schema |-> "plain", compress |-> FALSE, has_length_header |-> FALSE],
     [schema |-> "plain", compress |-> TRUE, has_length_header |-> FALSE]}

\* read_one_batch(input, schema, compress, has_length_header) on an input
\* over what the sink holds: opened at the start when it is not open on that
\* content yet, else going on where the last read ended
IpcReadOneBatch ==
    /\ IpcCanCall
    /\ ipc_reader = None
    /\ \E args \in IpcReadArgs :
         LET start == IF ipc_input.bytes = sink.bytes /\ ipc_input.pos > 0
                      THEN ipc_input.pos ELSE IpcStart
             schema == args.schema
             compress == args.compress
             has_length_header == args.has_length_header
             input == [bytes |-> sink.bytes, pos |-> start]
             res == read_one_batch(input, schema, compress, has_length_header)
             out == IpcOut("read_one_batch", res.result, 0, res.batch, compress)[1]
         IN /\ ipc_input' = res.input
            /\ ipc_out' = Some([out EXCEPT !.read =
                                 Some([schema |-> schema,
                                       has_length_header |-> has_length_header,
                                       at |-> start])])
    /\ UNCHANGED <<sink, ipc_writer, ipc_reader>>
    /\ UNCHANGED <<joinVars, countVars, udafVars>>

NextIpc ==
    \/ IpcWriterNew
    \/ IpcWriterWrite
    \/ IpcWriterFinish
    \/ IpcWriterIntoInner
    \/ IpcWriteOneBatch
    \/ IpcReaderNew
    \/ IpcReaderNext

SpecIpc == InitIpc /\ [][NextIpc]_vars

\* Frames written into a sink by write_one_batch and read back from it by
\* read_one_batch
NextIpcFrames ==
    \/ IpcWriteOneBatch
    \/ IpcReadOneBatch

SpecIpcFrames == InitIpc /\ [][NextIpcFrames]_vars

\* ------------------------------------------------------------- IPC: claims
\* The writer exists and is Finished
WriterFinished == ipc_writer # None /\ ipc_writer[1].finished

\* The reader exists and is Finished
ReaderFinished == ipc_reader # None /\ ipc_reader[1].finished

\* This step is a call of op
IpcStep(op) == ipc_out' # ipc_out /\ ipc_out'[1].op = op

\* The input ends where a metadata length is due: fewer than four bytes are
\* left
EofBeforeLength == Len(ipc_input.bytes) - ipc_input.pos < 4

\* The metadata length due, after the continuation marker if there is one,
\* is zero
ZeroLength ==
    LET at == IF /\ ipc_input.pos + 4 <= Len(ipc_input.bytes)
                 /\ SubSeq(ipc_input.bytes, ipc_input.pos + 1, ipc_input.pos + 4)
                      = <<255, 255, 255, 255>>
              THEN ipc_input.pos + 4 ELSE ipc_input.pos
    IN /\ at + 4 <= Len(ipc_input.bytes)
       /\ SubSeq(ipc_input.bytes, at + 1, at + 4) = <<0, 0, 0, 0>>

C20_WriteOneBatchFraming ==
    (ipc_out # None /\ ipc_out[1].op = "write_one_batch") =>
        LET out == ipc_out[1]
            p == out.before.pos
            e == sink.pos
        IN IF out.batch[1].num_rows = 0
           THEN /\ sink = out.before
                /\ out.result = "ok"
                /\ out.value = 0
           ELSE /\ out.result = "ok"
                /\ e > p + 8
                /\ Len(sink.bytes) >= e
                /\ Len(sink.bytes) >= Len(out.before.bytes)
                /\ u64_from_le_bytes(SubSeq(sink.bytes, p + 1, p + 8)) = e - p - 8
                /\ out.value = e - p
                /\ SubSeq(sink.bytes, 1, p) = SubSeq(out.before.bytes, 1, p)
                /\ \A k \in (e + 1)..Len(sink.bytes) : sink.bytes[k] = out.before.bytes[k]

\* A compressed batch of three rows was framed inside a sink that held bytes
\* before and after the position
C20_Witness ==
    /\ ipc_out # None
    /\ ipc_out[1].op = "write_one_batch"
    /\ ipc_out[1].compress
    /\ ipc_out[1].batch[1].num_rows = 3
    /\ ipc_out[1].before.pos = 1
    /\ Len(ipc_out[1].before.bytes) = 12
    /\ sink.pos > 9

\* The schema of a batch
SchemaOf(batch) == IF batch.dictionary = None THEN "plain" ELSE "dictionary"

\* The last call was a read_one_batch with a length header that started at
\* frame k and was given the frame's schema and compress flag
ReadOfFrame(k) ==
    /\ ipc_out # None
    /\ ipc_out[1].op = "read_one_batch"
    /\ k \in DOMAIN ipc_out[1].frames
    /\ ipc_out[1].read[1].has_length_header
    /\ ipc_out[1].read[1].at = ipc_out[1].frames[k].at
    /\ ipc_out[1].read[1].schema = SchemaOf(ipc_out[1].frames[k].batch)
    /\ ipc_out[1].compress = ipc_out[1].frames[k].compress

\* C21: a read_one_batch with a length header, at the start of a frame that
\* write_one_batch wrote for a non-empty batch B, with B's schema and the
\* frame's compress flag, returns a batch equal to B; it consumes 8 bytes
\* plus the length the header holds, which is the frame's size, so the input
\* is then at the start of the frame written next, if there is one.
C21_RoundTrip ==
    \A k \in 1..MaxIpcOps :
        ReadOfFrame(k) =>
            LET out == ipc_out[1]
                frame == out.frames[k]
                length == u64_from_le_bytes(SubSeq(sink.bytes, frame.at + 1, frame.at + 8))
            IN /\ frame.batch.num_rows > 0
               /\ out.result = "batch"
               /\ out.batch = Some(frame.batch)
               /\ ipc_input.bytes = sink.bytes
               /\ ipc_input.pos = frame.at + 8 + length
               /\ ipc_input.pos = frame.at + frame.size
               /\ k < Len(out.frames) => ipc_input.pos = out.frames[k + 1].at

\* Two different batches were framed back to back, the second compressed,
\* and the second of two reads returned the second batch
C21_Witness ==
    /\ ReadOfFrame(2)
    /\ ipc_out[1].ops = 4
    /\ ipc_out[1].frames[1].batch # ipc_out[1].frames[2].batch
    /\ ipc_out[1].frames[2].compress
    /\ ~ipc_out[1].frames[1].compress
    /\ ipc_out[1].frames[2].batch.dictionary # None
    /\ ipc_out[1].result = "batch"

\* The build rows with all keys non-null whose masked hash is h
RowsWithHash(m, h) == {r \in ValidRows(m) : mask_hash(RowHash(m, r)) = h}

\* The slots of mapped_indices (0-based) a range entry takes: its length slot
\* and its run
RunSlots(mv, table) ==
    (mv.w1 - 1)..(mv.w1 + table.mapped_indices[(mv.w1 - 1) + 1] - 1)

\* Sum over the slots S of a map of the run length plus one of each range
\* entry
RECURSIVE RunSlotCount(_, _)
RunSlotCount(t, S) ==
    IF S = {} THEN 0
    ELSE LET j == CHOOSE y \in S : TRUE
         IN (IF is_range(t.map[j + 1]) THEN Len(get_range(t.map[j + 1], t)) + 1 ELSE 0)
                + RunSlotCount(t, S \ {j})

\* C22: build emission rule.  After build every masked hash of a row with
\* all keys non-null has exactly one non-empty entry and every non-empty
\* entry stores such a hash.  The entry is single-tagged iff exactly one
\* such row has the hash, and then holds that row's index; otherwise it is
\* range-tagged with a start s >= 1, mapped_indices[s-1] is the run length
\* len >= 2 and mapped_indices[s .. s+len) holds exactly the rows with that
\* hash, each once.  mapped_indices is as long as the sum over the range
\* entries of len + 1, and the slots of two range entries do not overlap.
C22_BuildEmission ==
    phase = "built" =>
        LET t == Built.table
            at(j) == t.map[j + 1]
        IN /\ \A h \in MaskedHashes(Built) :
                Cardinality({j \in Occupied(t.map) : hash(at(j)) = h}) = 1
           /\ \A j \in Occupied(t.map) :
                LET same == RowsWithHash(Built, hash(at(j)))
                IN /\ same # {}
                   /\ is_single(at(j)) \/ is_range(at(j))
                   /\ is_single(at(j)) <=> Cardinality(same) = 1
                   /\ is_single(at(j)) => same = {get_single(at(j))}
                   /\ is_range(at(j)) =>
                        /\ at(j).w1 >= 1
                        /\ at(j).w1 <= Len(t.mapped_indices)
                        /\ t.mapped_indices[(at(j).w1 - 1) + 1] >= 2
                        /\ at(j).w1 + t.mapped_indices[(at(j).w1 - 1) + 1]
                             <= Len(t.mapped_indices)
                        /\ Range(get_range(at(j), t)) = same
                        /\ Len(get_range(at(j), t)) = Cardinality(same)
           /\ Len(t.mapped_indices) = RunSlotCount(t, Occupied(t.map))
           /\ \A j1, j2 \in Occupied(t.map) :
                (j1 # j2 /\ is_range(at(j1)) /\ is_range(at(j2)))
                    => RunSlots(at(j1), t) \cap RunSlots(at(j2), t) = {}

\* A table built with a single entry and a run
C22_Witness ==
    /\ phase = "built"
    /\ \E j \in Occupied(Built.table.map) : is_single(Built.table.map[j + 1])
    /\ \E j \in Occupied(Built.table.map) :
         /\ is_range(Built.table.map[j + 1])
         /\ Len(get_range(Built.table.map[j + 1], Built.table)) >= 2
    /\ Len(Built.table.mapped_indices) >= 3

\* C23: end of stream is sticky.  When a read on a reader has returned no
\* batch, the next read on that reader returns no batch too, whatever the
\* input holds after the place the first read stopped at.
C23_EndOfStreamSticky ==
    [][(/\ ipc_reader # None
        /\ ipc_out # None
        /\ ipc_out[1].op = "next"
        /\ ipc_out[1].result = "none"
        /\ IpcStep("next"))
       => (ipc_out'[1].result = "none" /\ ipc_out'[1].batch = None)]_vars

\* C24: unspill and unfreeze_from_rows grow the column before they read.
\* When unspill(n) finds only j < n values in the stream, and when
\* unfreeze_from_rows finds the j+1-th of its buffers cut short, the call
\* returns the error and the column has n (resp. array.len()) more records
\* than before: the records it had are unchanged, the first j new ones hold
\* the values read in order and the other new ones hold 0.
C24_GrowBeforeRead ==
    /\ ( /\ count_out # None
         /\ count_out[1].op = "unspill"
         /\ count_out[1].num_rows > idx_len(count_log[1].idx) )
       => LET m == Len(count_out[1].before)
              n == count_out[1].num_rows
              j == idx_len(count_log[1].idx)
          IN /\ ~count_out[1].ok
             /\ count_num_records(merging_accs) = m + n
             /\ \A i \in 1..m : merging_accs[i] = count_out[1].before[i]
             /\ \A i \in 1..j :
                  merging_accs[m + i] = accs[idx_at(count_log[1].idx, i - 1) + 1]
             /\ \A i \in (j + 1)..n : merging_accs[m + i] = 0
    /\ ( /\ count_out # None
         /\ count_out[1].op = "unfreeze_from_cut_rows" )
       => LET m == Len(count_out[1].before)
              n == count_out[1].num_rows
              j == count_out[1].cut - 1
          IN /\ ~count_out[1].ok
             /\ n = Len(rows)
             /\ count_num_records(merging_accs) = m + n
             /\ \A i \in 1..m : merging_accs[i] = count_out[1].before[i]
             /\ \A i \in 1..j :
                  merging_accs[m + i] = accs[idx_at(count_log[1].idx, i - 1) + 1]
             /\ \A i \in (j + 1)..n : merging_accs[m + i] = 0

\* An unspill of three rows behind two records failed at its second row,
\* after reading a value that is not zero
C24_Witness ==
    /\ count_out # None
    /\ count_out[1].op = "unspill"
    /\ ~count_out[1].ok
    /\ count_out[1].num_rows = 3
    /\ idx_len(count_log[1].idx) = 1
    /\ Len(count_out[1].before) = 2
    /\ merging_accs = <<200, 9, 16384, 0, 0>>

====
